---- MODULE Spec2Model ----
(***************************************************************************)
(* Lane-parallel filter engine of sst-filters: the K35 two-pole filter     *)
(* (K35Filter.h) and the ResonanceWarp nonlinear biquad cascade            *)
(* (ResonanceWarp.h), with their coefficient makers and the per-sample     *)
(* coefficient ramp.                                                       *)
(*                                                                         *)
(* Numbers.  A float is modelled by an exact rational <<n, d>> in lowest   *)
(* terms with d > 0; <<0, 0>> is NaN and <<1, 0>>, <<-1, 0>> are the       *)
(* infinities a division by zero produces.  Rounding is not modelled: the  *)
(* arithmetic is the real arithmetic the float code approximates.          *)
(* Angles are carried in units of pi, so that M_PI needs no rational       *)
(* stand-in.                                                               *)
(***************************************************************************)
EXTENDS Integers, Sequences, FiniteSets, TLC

VARIABLES
    unit,   \* unit[i]: the QuadFilterUnitState of instance i: C, dC, R
    cfg,    \* cfg[i]: family, variant and subtype instance i was configured with
    out,    \* out[i]: the lane-group returned by the last process call of i
    hist,   \* hist[i]: history of instance i (calls since retarget, pre-call state)
    maker,  \* the last coefficient-maker call: its arguments and the C[] it built
    probe   \* the lane two units are compared on (0 when a single unit runs)

vars == <<unit, cfg, out, hist, maker, probe>>

----------------------------------------------------------------------------
(* Scalar float arithmetic (exact rationals)                               *)

Abs(x) == IF x < 0 THEN -x ELSE x

RECURSIVE GCD(_, _)
GCD(a, b) == IF b = 0 THEN a ELSE GCD(b, a % b)

NaN == <<0, 0>>

IsFinite(a) == a[2] # 0

Rat(n, d) ==
    IF d = 0 THEN (IF n = 0 THEN NaN ELSE IF n > 0 THEN <<1, 0>> ELSE <<-1, 0>>)
    ELSE LET g == GCD(Abs(n), Abs(d))
             s == IF d < 0 THEN -1 ELSE 1
         IN  <<s * (n \div g), s * (d \div g)>>

IntF(n) == <<n, 1>>

fadd(a, b) ==
    IF ~IsFinite(a) \/ ~IsFinite(b) THEN NaN
    ELSE LET g == GCD(a[2], b[2])
         IN  Rat(a[1] * (b[2] \div g) + b[1] * (a[2] \div g), a[2] * (b[2] \div g))

fneg(a) == IF IsFinite(a) THEN <<-a[1], a[2]>> ELSE <<-a[1], 0>>

fsub(a, b) == fadd(a, fneg(b))

fmul(a, b) ==
    IF ~IsFinite(a) \/ ~IsFinite(b) THEN NaN
    ELSE LET g1 == GCD(Abs(a[1]), b[2])
             g2 == GCD(Abs(b[1]), a[2])
         IN  Rat((a[1] \div g1) * (b[1] \div g2), (a[2] \div g2) * (b[2] \div g1))

fdiv(a, b) ==
    IF ~IsFinite(a) \/ ~IsFinite(b) THEN NaN
    ELSE IF b[1] = 0 THEN Rat(a[1], 0)
    ELSE fmul(a, Rat(b[2], b[1]))

\* a < b; false when either side is NaN, as a float comparison is
flt(a, b) == IsFinite(a) /\ IsFinite(b) /\ a[1] * b[2] < b[1] * a[2]

fle(a, b) == IsFinite(a) /\ IsFinite(b) /\ a[1] * b[2] <= b[1] * a[2]

fabs(a) == <<Abs(a[1]), a[2]>>

\* std::clamp(v, lo, hi) as the standard library computes it (lo <= hi required)
stdclamp(v, lo, hi) == IF flt(v, lo) THEN lo ELSE IF flt(hi, v) THEN hi ELSE v

\* the larger of the two
fminf_larger(a, b) == IF flt(b, a) THEN a ELSE b

\* fminf(a, b)
fminf(a, b) == IF flt(b, a) THEN b ELSE a

----------------------------------------------------------------------------
(* Lane-groups: SIMD_M128, four float lanes, and the intrinsics the        *)
(* F/M/D/A/S macros of the two headers expand to; each acts lane by lane.  *)

NumLanes == 4

Lanes == 1..NumLanes

F(a) == <<a, a, a, a>>

\* M with the second operand broadcast from its first lane
M_broadcast(a, b) ==
    <<fmul(a[1], b[1]), fmul(a[2], b[1]), fmul(a[3], b[1]), fmul(a[4], b[1])>>

M(a, b) == <<fmul(a[1], b[1]), fmul(a[2], b[2]), fmul(a[3], b[3]), fmul(a[4], b[4])>>

D(a, b) == <<fdiv(a[1], b[1]), fdiv(a[2], b[2]), fdiv(a[3], b[3]), fdiv(a[4], b[4])>>

A(a, b) == <<fadd(a[1], b[1]), fadd(a[2], b[2]), fadd(a[3], b[3]), fadd(a[4], b[4])>>

S(a, b) == <<fsub(a[1], b[1]), fsub(a[2], b[2]), fsub(a[3], b[3]), fsub(a[4], b[4])>>

Zero == F(IntF(0))

----------------------------------------------------------------------------
(* Saturators of sst-basic-blocks (external): bounded odd functions.       *)

\* scalar tanh-like curve: identity up to 1/4, slope 3/8 up to 9/4, then flat at 1
tanhlike(x) ==
    IF ~IsFinite(x) THEN NaN
    ELSE LET ax == fabs(x)
             y == IF fle(ax, Rat(1, 4)) THEN ax
                  ELSE IF fle(ax, Rat(9, 4))
                       THEN fadd(Rat(1, 4), fmul(Rat(3, 8), fsub(ax, Rat(1, 4))))
                       ELSE IntF(1)
         IN  IF x[1] < 0 THEN fneg(y) ELSE y

\* scalar soft clip: identity up to 1/2, half slope up to 3/2, then flat at 1
softclip(x) ==
    IF ~IsFinite(x) THEN NaN
    ELSE LET ax == fabs(x)
             y == IF fle(ax, Rat(1, 2)) THEN ax
                  ELSE IF fle(ax, Rat(3, 2))
                       THEN fadd(Rat(1, 2), fmul(Rat(1, 2), fsub(ax, Rat(1, 2))))
                       ELSE IntF(1)
         IN  IF x[1] < 0 THEN fneg(y) ELSE y

fasttanhSSEclamped(x) == <<tanhlike(x[1]), tanhlike(x[2]), tanhlike(x[3]), tanhlike(x[4])>>

softclip_ps(x) == <<softclip(x[1]), softclip(x[2]), softclip(x[3]), softclip(x[4])>>

----------------------------------------------------------------------------
(* K35 filter                                                              *)

n_cm_coeffs == 8

k35_G == 0
k35_lb == 1
k35_hb == 2
k35_k == 3
k35_alpha == 4
k35_saturation == 5
k35_saturation_blend == 6
k35_saturation_blend_inv == 7

k35_lz == 0
k35_hz == 1
k35_2z == 2

CoeffSlots == 0..(n_cm_coeffs - 1)

\* doLpf storing its result in the register
doLpf_store_result(v, result) == [result |-> result, z |-> result]

\* doLpf, lines 54-55: z = A(v, result); return result
doLpf_store(v, result) == [result |-> result, z |-> A(v, result)]

\* doLpf, line 53: result = A(v, z)
doLpf_sum(v, z) == doLpf_store(v, A(v, z))

\* doLpf: the result and the new value of the register passed by reference;
\* line 52: v = M(S(input, z), G)
doLpf(G, input, z) == doLpf_sum(M(S(input, z), G), z)

\* the subtraction the other way round
doHpf_of_reversed(input, l) == [result |-> S(l.result, input), z |-> l.z]

\* doHpf, line 59: the lowpass result taken from the input; z as doLpf left it
doHpf_of(input, l) == [result |-> S(input, l.result), z |-> l.z]

\* doHpf: S(input, doLpf(G, input, z))
doHpf(G, input, z) == doHpf_of(input, doLpf(G, input, z))

\* processCoeffs adding each delta twice
processCoeffs_twice(f) ==
    [f EXCEPT !.C = [i \in CoeffSlots |-> A(A(f.C[i], f.dC[i]), f.dC[i])]]

\* processCoeffs using the deltas up as it adds them
processCoeffs_consuming(f) ==
    [f EXCEPT !.C = [i \in CoeffSlots |-> A(f.C[i], f.dC[i])],
              !.dC = [i \in CoeffSlots |-> Zero]]

\* processCoeffs with a loop that stops one slot short
processCoeffs_short(f) ==
    [f EXCEPT !.C = [i \in CoeffSlots |->
                        IF i < n_cm_coeffs - 1 THEN A(f.C[i], f.dC[i]) ELSE f.C[i]]]

processCoeffs(f) == [f EXCEPT !.C = [i \in CoeffSlots |-> A(f.C[i], f.dC[i])]]

\* the blend with the two blend coefficients exchanged
k35_blend_swapped(f, clean) ==
    A(M(clean, f.C[k35_saturation_blend]),
      M(fasttanhSSEclamped(M(clean, f.C[k35_saturation])), f.C[k35_saturation_blend_inv]))

\* the saturation blend both routines apply to a clean signal
k35_blend(f, clean) ==
    A(M(clean, f.C[k35_saturation_blend_inv]),
      M(fasttanhSSEclamped(M(clean, f.C[k35_saturation])), f.C[k35_saturation_blend]))

\* the scaled y returned as it is
lp_out_scaled(f, y) ==
    [f |-> [f EXCEPT !.R[k35_hz] = doHpf(f.C[k35_G], y, f.R[k35_hz]).z],
     result |-> y]

\* process_lp, lines 143-147: the highpass stage on hz fed with y, and the result
lp_out(f, y) ==
    [f |-> [f EXCEPT !.R[k35_hz] = doHpf(f.C[k35_G], y, f.R[k35_hz]).z],
     result |-> D(y, f.C[k35_k])]

\* process_lp, line 142: y = mk * lpf2(u), lpf2 on the register 2z
lp_second(f, l2) == lp_out([f EXCEPT !.R[k35_2z] = l2.z], M(f.C[k35_k], l2.result))

\* process_lp, lines 134-142: the feedback sum, the blend and the second stage,
\* on the registers as the first stage left them
lp_feedback(f, y1) ==
    lp_second(f, doLpf(f.C[k35_G],
                       k35_blend(f, M(f.C[k35_alpha],
                                      A(y1, A(M(f.C[k35_lb], f.R[k35_2z]),
                                              M(f.C[k35_hb], f.R[k35_hz]))))),
                       f.R[k35_2z]))

lp_first(f, l1) == lp_feedback([f EXCEPT !.R[k35_lz] = l1.z], l1.result)

\* lines 132-147 of process_lp: the recurrence on the current coefficients
lp_recurrence(f, input) == lp_first(f, doLpf(f.C[k35_G], input, f.R[k35_lz]))

\* process_lp advancing the coefficients after the recurrence
process_lp_late(f, input) ==
    [f |-> processCoeffs(lp_recurrence(f, input).f),
     result |-> lp_recurrence(f, input).result]

process_lp(f, input) == lp_recurrence(processCoeffs(f), input)

\* process_hp, line 166, outer call: the lowpass stage on lz
hp_third(f, l3, y) == [f |-> [f EXCEPT !.R[k35_lz] = l3.z], result |-> D(y, f.C[k35_k])]

\* the lowpass stage on lz fed with y itself
hp_second_direct(f, h2, y) ==
    hp_third([f EXCEPT !.R[k35_2z] = h2.z], doLpf(f.C[k35_G], y, f.R[k35_lz]), y)

\* process_hp, line 166, inner call: the highpass stage on 2z
hp_second(f, h2, y) ==
    hp_third([f EXCEPT !.R[k35_2z] = h2.z],
             doLpf(f.C[k35_G], h2.result, f.R[k35_lz]), y)

hp_out(f, y) == hp_second(f, doHpf(f.C[k35_G], y, f.R[k35_2z]), y)

\* process_hp, lines 156-164: the feedback sum, y_clean and the blend
hp_feedback(f, y1) ==
    hp_out(f, k35_blend(f, M(f.C[k35_k],
                             M(f.C[k35_alpha],
                               A(y1, A(M(f.C[k35_hb], f.R[k35_2z]),
                                       M(f.C[k35_lb], f.R[k35_lz])))))))

hp_first(f, h1) == hp_feedback([f EXCEPT !.R[k35_hz] = h1.z], h1.result)

\* lines 154-170 of process_hp: the recurrence on the current coefficients
hp_recurrence(f, input) == hp_first(f, doHpf(f.C[k35_G], input, f.R[k35_hz]))

process_hp(f, input) == hp_recurrence(processCoeffs(f), input)

----------------------------------------------------------------------------
(* ResonanceWarp filter                                                    *)

SAT_TANH == 0
SAT_SOFT == 1

nls_a1 == 0
nls_a2 == 1
nls_b0 == 2
nls_b1 == 3
nls_b2 == 4
n_nls_coeff == 5

nls_z1 == 0
nls_z2 == 1

\* doNLFilter without the switch on sat: the registers stored as computed
nl_saturate_none(sat, z) == z

\* a switch with a case for SAT_SOFT and tanh as the default
nl_saturate_soft_only(sat, z) ==
    IF sat = SAT_SOFT THEN softclip_ps(z) ELSE fasttanhSSEclamped(z)

\* doNLFilter, lines 67-79: the switch on sat; every value but SAT_TANH takes
\* the default branch
nl_saturate(sat, z) == IF sat = SAT_TANH THEN fasttanhSSEclamped(z) ELSE softclip_ps(z)

\* the register updates with z2 written first and z1 computed from the new z2
nl_update_late(input, a1, a2, b1, b2, sat, z2, o) ==
    [out |-> o,
     z1 |-> nl_saturate(sat, A(nl_saturate(sat, S(M(b2, input), M(a2, o))),
                               S(M(b1, input), M(a1, o)))),
     z2 |-> nl_saturate(sat, S(M(b2, input), M(a2, o)))]

\* doNLFilter, lines 61-64: the two register updates, from the output o
nl_update(input, a1, a2, b1, b2, sat, z2, o) ==
    [out |-> o,
     z1 |-> nl_saturate(sat, A(z2, S(M(b1, input), M(a1, o)))),
     z2 |-> nl_saturate(sat, S(M(b2, input), M(a2, o)))]

\* doNLFilter with A written for M in the output line
doNLFilter_sum(input, a1, a2, b0, b1, b2, sat, z1, z2) ==
    nl_update(input, a1, a2, b1, b2, sat, z2, A(z1, A(b0, input)))

\* one biquad stage: the returned value and the two registers passed by reference
doNLFilter(input, a1, a2, b0, b1, b2, sat, z1, z2) ==
    nl_update(input, a1, a2, b1, b2, sat, z2, A(z1, M(b0, input)))

RECURSIVE stage_loop(_, _, _, _, _)

\* the loop body clearing the registers of every later stage
stage_store_clearing(f, r, stage, stages, sat) ==
    stage_loop([f EXCEPT !.R = [k \in DOMAIN f.R |->
                                   IF k = nls_z1 + stage * 2 THEN r.z1
                                   ELSE IF k = nls_z2 + stage * 2 THEN r.z2
                                   ELSE IF k > nls_z2 + stage * 2 THEN Zero
                                   ELSE f.R[k]]],
               r.out, stage + 1, stages, sat)

\* the coefficients advanced inside the loop body, once per stage
stage_store_advancing(f, r, stage, stages, sat) ==
    stage_loop([f EXCEPT !.R[nls_z1 + stage * 2] = r.z1,
                         !.R[nls_z2 + stage * 2] = r.z2,
                         !.C = [i \in CoeffSlots |->
                                   IF i < n_nls_coeff THEN A(f.C[i], f.dC[i]) ELSE f.C[i]]],
               r.out, stage + 1, stages, sat)

\* one pass of the loop body: the registers of the stage written, the output
\* handed to the next stage
stage_store(f, r, stage, stages, sat) ==
    stage_loop([f EXCEPT !.R[nls_z1 + stage * 2] = r.z1,
                         !.R[nls_z2 + stage * 2] = r.z2],
               r.out, stage + 1, stages, sat)

\* the loop body on the registers counted from the last stage down
stage_store_downward(f, r, stage, stages, sat) ==
    stage_loop([f EXCEPT !.R[nls_z1 + (stages - stage) * 2] = r.z1,
                         !.R[nls_z2 + (stages - stage) * 2] = r.z2],
               r.out, stage + 1, stages, sat)

\* the stage loop running from the last stage's registers down to the first's
stage_loop_downward(f, input, stage, stages, sat) ==
    IF stage > stages THEN [f |-> f, result |-> input]
    ELSE stage_store_downward(f,
                              doNLFilter(input, f.C[nls_a1], f.C[nls_a2], f.C[nls_b0],
                                         f.C[nls_b1], f.C[nls_b2], sat,
                                         f.R[nls_z1 + (stages - stage) * 2],
                                         f.R[nls_z2 + (stages - stage) * 2]),
                              stage, stages, sat)

\* the stage loop of process, lines 168-172: stages stage..stages, in order
stage_loop(f, input, stage, stages, sat) ==
    IF stage > stages THEN [f |-> f, result |-> input]
    ELSE stage_store(f,
                     doNLFilter(input, f.C[nls_a1], f.C[nls_a2], f.C[nls_b0],
                                f.C[nls_b1], f.C[nls_b2], sat,
                                f.R[nls_z1 + stage * 2], f.R[nls_z2 + stage * 2]),
                     stage, stages, sat)

\* the coefficient loop running over all n_cm_coeffs slots
nls_advance_all(f) == [f EXCEPT !.C = [i \in CoeffSlots |-> A(f.C[i], f.dC[i])]]

\* the coefficient loop of process, lines 174-177
nls_advance(f) ==
    [f EXCEPT !.C = [i \in CoeffSlots |->
                        IF i < n_nls_coeff THEN A(f.C[i], f.dC[i]) ELSE f.C[i]]]

process_return(r) == [f |-> nls_advance(r.f), result |-> r.result]

\* process with a stage loop that stops at stage < stages
process_short(subtype, f, input) ==
    process_return(stage_loop(f, input, 0, (subtype % 4) - 1, (subtype \div 4) % 4))

\* process<subtype>: stages = subtype & 3, sat = (subtype >> 2) & 3
process(subtype, f, input) ==
    process_return(stage_loop(f, input, 0, subtype % 4, (subtype \div 4) % 4))

----------------------------------------------------------------------------
(* Coefficient makers                                                      *)

RECURSIVE Pow2(_)
Pow2(k) == IF k = 0 THEN 1 ELSE 2 * Pow2(k - 1)

\* the tuning provider (external): note_to_pitch_ignoring_tuning(pitch + 69) *
\* MIDI_0_FREQ in standard tuning, 440 * 2^(pitch / 12), exact for whole octaves
provider_freq(pitch) ==
    IF pitch >= 0 THEN IntF(440 * Pow2(pitch \div 12))
    ELSE Rat(440, Pow2((-pitch) \div 12))

\* fasttan (external) of an angle given in units of pi: stand-in 3x / (1 - x)
\* for tan(pi x), exact at x = 0 and x = 1/4, increasing on [0, 1/2]
fasttan(x) == fdiv(fmul(IntF(3), x), fsub(IntF(1), x))

\* fastsin and fastcos (external) of an angle in units of pi, by the half-angle
\* formulas over fasttan, so that sin^2 + cos^2 = 1
fastsin(x) ==
    LET t == fasttan(fmul(x, Rat(1, 2)))
    IN  fdiv(fmul(IntF(2), t), fadd(IntF(1), fmul(t, t)))

fastcos(x) ==
    LET t == fasttan(fmul(x, Rat(1, 2)))
    IN  fdiv(fsub(IntF(1), fmul(t, t)), fadd(IntF(1), fmul(t, t)))

\* clampedFrequency without its upper bound
clampedFrequency_lower(pitch, sampleRate) ==
    IF flt(provider_freq(pitch), IntF(5)) THEN IntF(5) ELSE provider_freq(pitch)

\* clampedFrequency of both headers
clampedFrequency(pitch, sampleRate) ==
    stdclamp(provider_freq(pitch), IntF(5), fmul(sampleRate, Rat(3, 10)))

\* float C[n_cm_coeffs]{}
ZeroC == [i \in CoeffSlots |-> IntF(0)]

\* the resonance clamp without its lower bound
k35_mk_upper(reso) ==
    LET k == fmul(reso, Rat(196, 100))
    IN  IF flt(Rat(196, 100), k) THEN Rat(196, 100) ELSE k

\* the clamp from below only
k35_mk_lower(reso) ==
    LET k == fmul(reso, Rat(196, 100))
    IN  IF flt(k, Rat(1, 100)) THEN Rat(1, 100) ELSE k

\* the resonance clamp of K35 makeCoefficients, lines 94-96
k35_mk(reso) ==
    LET k == fmul(reso, Rat(196, 100))
    IN  IF flt(Rat(196, 100), k) THEN Rat(196, 100)
        ELSE IF flt(k, Rat(1, 100)) THEN Rat(1, 100) ELSE k

\* K35Filter::makeCoefficients: the C[] handed to FromDirect
k35_makeCoefficients(freq, reso, is_lowpass, saturation, sampleRate, sampleRateInv) ==
    LET wd == fmul(clampedFrequency(freq, sampleRate), IntF(2))     \* in units of pi
        wa == fmul(fmul(IntF(2), sampleRate),
                   fasttan(fmul(fmul(wd, sampleRateInv), Rat(1, 2))))
        g == fmul(fmul(wa, sampleRateInv), Rat(1, 2))
        gp1 == fadd(IntF(1), g)
        G == fdiv(g, gp1)
        mk == k35_mk(reso)
        blend == fminf(saturation, IntF(1))
    IN  [i \in CoeffSlots |->
            CASE i = k35_G -> G
              [] i = k35_lb -> IF is_lowpass THEN fdiv(fsub(mk, fmul(mk, G)), gp1)
                               ELSE fdiv(IntF(1), gp1)
              [] i = k35_hb -> IF is_lowpass THEN fdiv(IntF(-1), gp1)
                               ELSE fdiv(fneg(G), gp1)
              [] i = k35_k -> mk
              [] i = k35_alpha ->
                    fdiv(IntF(1), fadd(fsub(IntF(1), fmul(mk, G)), fmul(fmul(mk, G), G)))
              [] i = k35_saturation -> saturation
              [] i = k35_saturation_blend -> blend
              [] i = k35_saturation_blend_inv -> fsub(IntF(1), blend)
              [] OTHER -> IntF(0)]

\* ResonanceWarp::makeCoefficients, lines 112-154, on the clamped resonance: the
\* C[] handed to FromDirect.  type is the
\* filter-type selector: "lp", "hp", "n", "bp" for the four named cases, anything
\* else takes the default branch
nls_coefficients(freq, reso, type, sampleRate) ==
    LET q == fadd(fmul(fmul(fmul(reso, reso), reso), IntF(18)), Rat(1, 10))
        wc == fdiv(fmul(IntF(2), clampedFrequency(freq, sampleRate)), sampleRate)
        wsin == fastsin(wc)
        wcos == fastcos(wc)
        alpha == fdiv(wsin, fmul(IntF(2), q))
        a0r == fdiv(IntF(1), fadd(IntF(1), alpha))
        a1 == fmul(fmul(IntF(-2), wcos), a0r)
        a2 == fmul(fsub(IntF(1), alpha), a0r)
        lpb1 == fmul(fsub(IntF(1), wcos), a0r)
        hpb1 == fmul(fneg(fadd(IntF(1), wcos)), a0r)
        bpb0 == fmul(fmul(wsin, Rat(1, 2)), a0r)
        b == CASE type = "lp" -> <<fmul(lpb1, Rat(1, 2)), lpb1, fmul(lpb1, Rat(1, 2))>>
               [] type = "hp" -> <<fmul(hpb1, Rat(-1, 2)), hpb1, fmul(hpb1, Rat(-1, 2))>>
               [] type = "n" -> <<a0r, fmul(fmul(IntF(-2), wcos), a0r), a0r>>
               [] type = "bp" -> <<bpb0, IntF(0), fneg(bpb0)>>
               [] OTHER -> <<a2, a1, IntF(1)>>
    IN  [i \in CoeffSlots |->
            CASE i = nls_a1 -> a1
              [] i = nls_a2 -> a2
              [] i = nls_b0 -> b[1]
              [] i = nls_b1 -> b[2]
              [] i = nls_b2 -> b[3]
              [] OTHER -> IntF(0)]

\* makeCoefficients without line 110
nls_makeCoefficients_unclamped(freq, reso0, type, sampleRate) ==
    nls_coefficients(freq, reso0, type, sampleRate)

\* ResonanceWarp makeCoefficients; line 110: reso = std::clamp(reso, 0.f, 1.f)
nls_makeCoefficients(freq, reso0, type, sampleRate) ==
    nls_coefficients(freq, stdclamp(reso0, IntF(0), IntF(1)), type, sampleRate)

----------------------------------------------------------------------------
(* Bounds and input sets                                                   *)

\* samples per block: process calls between two coefficient retargets
BlockLength == 2

\* process calls per instance in one behaviour
MaxCalls == 3

NumRegs == 8

RegSlots == 0..(NumRegs - 1)

\* the input lane-groups a call may be given
InputGroups ==
    { Zero,
      <<IntF(1), IntF(-1), Rat(1, 2), IntF(2)>> }

K35Cfg(is_lowpass) ==
    [family |-> "k35", is_lowpass |-> is_lowpass, type |-> "", subtype |-> 0]

NlsCfg(type, subtype) ==
    [family |-> "nls", is_lowpass |-> FALSE, type |-> type, subtype |-> subtype]

\* the configurations of the process specification: both K35 routines and every
\* ResonanceWarp subtype (stage count x saturator field)
Cfgs == { K35Cfg(TRUE), K35Cfg(FALSE) } \cup { NlsCfg("lp", st) : st \in 0..15 }

\* a coefficient vector from one lane-group per slot
Vec(c0, c1, c2, c3, c4, c5, c6, c7) ==
    [i \in CoeffSlots |-> <<c0, c1, c2, c3, c4, c5, c6, c7>>[i + 1]]

ZeroVec == [i \in CoeffSlots |-> Zero]

\* current coefficients a block may start from: all zero (a unit whose C was
\* never written) or a vector inside the ranges the maker produces
StartsOf(c) ==
    IF c.family = "k35"
    THEN { ZeroVec,
           Vec(F(Rat(1, 2)),                                   \* G
               <<IntF(1), IntF(0), IntF(1), Rat(1, 2)>>,       \* lb
               <<IntF(-1), IntF(-1), IntF(0), IntF(-1)>>,      \* hb
               <<IntF(1), IntF(1), Rat(1, 2), IntF(1)>>,       \* k
               <<IntF(1), IntF(2), IntF(1), IntF(1)>>,         \* alpha
               <<IntF(0), IntF(1), IntF(2), IntF(0)>>,         \* saturation
               <<IntF(0), IntF(1), IntF(1), IntF(0)>>,         \* blend
               <<IntF(1), IntF(0), IntF(0), IntF(1)>>) }       \* 1 - blend
    ELSE { ZeroVec,
           Vec(<<IntF(0), IntF(-1), Rat(1, 2), IntF(0)>>,      \* a1
               <<Rat(-1, 2), IntF(0), Rat(1, 2), Rat(-1, 2)>>, \* a2
               <<Rat(1, 2), IntF(1), Rat(1, 2), IntF(1)>>,     \* b0
               <<IntF(1), IntF(0), IntF(-1), Rat(1, 2)>>,      \* b1
               <<Rat(1, 2), IntF(-1), Rat(1, 2), IntF(1)>>,    \* b2
               Zero, Zero, Zero) }

\* per-sample deltas of a block: the same delta in every slot and lane, or a
\* mixed one
Deltas ==
    { [i \in CoeffSlots |-> F(Rat(1, 2))],
      Vec(<<IntF(0), Rat(1, 4), IntF(0), IntF(0)>>,
          <<IntF(1), IntF(0), IntF(-1), IntF(0)>>,
          <<IntF(0), IntF(1), IntF(0), IntF(1)>>,
          <<Rat(-1, 4), IntF(0), Rat(1, 4), IntF(0)>>,
          <<IntF(1), IntF(0), IntF(-1), IntF(0)>>,
          <<IntF(1), IntF(-1), IntF(0), IntF(1)>>,
          <<Rat(1, 2), Rat(-1, 2), IntF(0), Rat(1, 2)>>,
          <<Rat(-1, 2), Rat(1, 2), IntF(0), Rat(-1, 2)>>) }

----------------------------------------------------------------------------
(* The filter unit and its driver                                          *)

\* a constructed QuadFilterUnitState with current coefficients c0
NewUnit(c0) ==
    [C |-> c0,
     dC |-> ZeroVec,
     R |-> [r \in RegSlots |-> Zero]]

NewHist(c0) ==
    [phase |-> "Uninitialized", armed |-> FALSE, n |-> 0, calls |-> 0, zeroIn |-> TRUE,
     Cstart |-> c0, target |-> c0, preC |-> c0, preR |-> [r \in RegSlots |-> Zero],
     input |-> Zero]

\* a call about to be made: the family and the arguments, no result yet
Call(family, pitch, reso, lp, type, sat, sr) ==
    [family |-> family, done |-> FALSE,
     args |-> [pitch |-> pitch, reso |-> reso, is_lowpass |-> lp, type |-> type,
               saturation |-> sat, sampleRate |-> sr],
     C |-> ZeroC, freq |-> IntF(0)]

NoMaker == Call("", 0, IntF(0), FALSE, "", IntF(0), IntF(0))

\* FromDirect: the per-sample delta towards a new target
FromDirect(f, target) ==
    [f EXCEPT !.dC = [i \in CoeffSlots |->
                         D(S(target[i], f.C[i]), F(IntF(BlockLength)))]]

\* the maker's resonance range for the K35 routines, which divide by k
TargetOK(c, target) ==
    c.family = "k35" =>
        \A l \in Lanes : /\ fle(Rat(1, 100), target[k35_k][l])
                         /\ fle(target[k35_k][l], Rat(196, 100))

\* the process routine the configuration selects
ProcessOf(c, f, input) ==
    IF c.family = "k35"
    THEN (IF c.is_lowpass THEN process_lp(f, input) ELSE process_hp(f, input))
    ELSE process(c.subtype, f, input)

\* the target a block away from the current coefficients at delta d per sample
TargetAt(f, d) == [s \in CoeffSlots |-> A(f.C[s], M(F(IntF(BlockLength)), d[s]))]

\* block boundary of instance i: FromDirect sets the deltas towards target
RetargetTo(i, target) ==
    /\ hist[i].calls < MaxCalls
    /\ ~hist[i].armed \/ hist[i].n = BlockLength
    /\ TargetOK(cfg[i], target)

Retargeted(i, target) ==
    [hist[i] EXCEPT !.armed = TRUE, !.n = 0, !.Cstart = unit[i].C, !.target = target]

\* one sample of instance i: the guard of the host's block loop
CanProcess(i) ==
    /\ hist[i].armed
    /\ hist[i].n < BlockLength
    /\ hist[i].calls < MaxCalls

Processed(i, input) ==
    [hist[i] EXCEPT !.phase = "Running", !.n = @ + 1, !.calls = @ + 1,
                    !.zeroIn = @ /\ input = Zero,
                    !.preC = unit[i].C, !.preR = unit[i].R, !.input = input]

\* block boundary: a new target, a block away at delta d per sample
Retarget(i) ==
    /\ \E d \in Deltas :
          \E target \in { TargetAt(unit[i], d) } :
              /\ RetargetTo(i, target)
              /\ unit' = [unit EXCEPT ![i] = FromDirect(unit[i], target)]
              /\ hist' = [hist EXCEPT ![i] = Retargeted(i, target)]
    /\ UNCHANGED <<cfg, out, maker, probe>>

\* one sample: the host calls the configured process routine
Process(i) ==
    /\ CanProcess(i)
    /\ \E input \in InputGroups :
          \E r \in { ProcessOf(cfg[i], unit[i], input) } :
              /\ unit' = [unit EXCEPT ![i] = r.f]
              /\ out' = [out EXCEPT ![i] = r.result]
              /\ hist' = [hist EXCEPT ![i] = Processed(i, input)]
    /\ UNCHANGED <<cfg, maker, probe>>

Init ==
    /\ cfg \in [{1} -> Cfgs]
    /\ \E c0 \in StartsOf(cfg[1]) :
          /\ unit = [i \in {1} |-> NewUnit(c0)]
          /\ hist = [i \in {1} |-> NewHist(c0)]
    /\ out = [i \in {1} |-> Zero]
    /\ maker = NoMaker
    /\ probe = 0

Next == Retarget(1) \/ Process(1)

Spec == Init /\ [][Next]_vars

----------------------------------------------------------------------------
(* The coefficient makers on their own                                     *)

\* pitches in semitones around A440, whole octaves: below, inside and above
\* the clamp interval of some sample rate
Pitches == { -96, -84, -60, -48, -12, 0, 12, 60 }

\* sample rates in Hz, each with 0.3 * sampleRate >= 5 as std::clamp requires
K35SampleRates == { IntF(50), IntF(1760), IntF(44000) }

NlsSampleRates == { IntF(50), IntF(100) }

K35Resos == { IntF(-1), Rat(-1, 100), IntF(0), Rat(1, 200), Rat(1, 196), Rat(1, 2),
              IntF(1), Rat(101, 100), IntF(2) }

NlsResos == { IntF(-1), IntF(0), Rat(1, 2), IntF(1), IntF(2) }

Saturations == { Rat(-1, 2), IntF(0), Rat(1, 2), IntF(1), IntF(3) }

\* the selectors of the five ResonanceWarp variants
ValidTypes == { "lp", "hp", "n", "bp", "ap" }

\* the selectors a caller can pass: the five variants and one of another filter
FilterTypes == ValidTypes \cup { "none" }

K35Calls ==
    { Call("k35", pitch, reso, lp, "", sat, sr) :
        pitch \in Pitches, reso \in K35Resos, lp \in BOOLEAN,
        sat \in Saturations, sr \in K35SampleRates }

NlsCalls ==
    { Call("nls", pitch, reso, FALSE, type, IntF(0), sr) :
        pitch \in Pitches, reso \in NlsResos, type \in FilterTypes,
        sr \in NlsSampleRates }

\* K35Filter::makeCoefficients is called; sampleRateInv is 1 / sampleRate
MakeK35 ==
    /\ maker.family = "k35"
    /\ ~maker.done
    /\ maker' = [maker EXCEPT
                    !.done = TRUE,
                    !.C = k35_makeCoefficients(maker.args.pitch, maker.args.reso,
                                               maker.args.is_lowpass,
                                               maker.args.saturation,
                                               maker.args.sampleRate,
                                               fdiv(IntF(1), maker.args.sampleRate)),
                    !.freq = clampedFrequency(maker.args.pitch, maker.args.sampleRate)]
    /\ UNCHANGED <<unit, cfg, out, hist, probe>>

\* ResonanceWarp::makeCoefficients is called
MakeNls ==
    /\ maker.family = "nls"
    /\ ~maker.done
    /\ maker' = [maker EXCEPT
                    !.done = TRUE,
                    !.C = nls_makeCoefficients(maker.args.pitch, maker.args.reso,
                                               maker.args.type, maker.args.sampleRate),
                    !.freq = clampedFrequency(maker.args.pitch, maker.args.sampleRate)]
    /\ UNCHANGED <<unit, cfg, out, hist, probe>>

InitMaker ==
    /\ cfg = <<>>
    /\ unit = <<>>
    /\ hist = <<>>
    /\ out = <<>>
    /\ maker \in K35Calls \cup NlsCalls
    /\ probe = 0

NextMaker == MakeK35 \/ MakeNls

SpecMaker == InitMaker /\ [][NextMaker]_vars

----------------------------------------------------------------------------
(* Two units side by side: unit 1 and a unit 2 that agrees with it on the  *)
(* lane probe and carries other values in the three other lanes, driven    *)
(* through the same retargets and calls.                                   *)

\* the lanes of v moved round by one
Rot(v) == <<v[2], v[3], v[4], v[1]>>

\* lane j taken from a, the other lanes from b
Mix(j, a, b) ==
    <<IF j = 1 THEN a[1] ELSE b[1], IF j = 2 THEN a[2] ELSE b[2],
      IF j = 3 THEN a[3] ELSE b[3], IF j = 4 THEN a[4] ELSE b[4]>>

\* lane j of v kept, the other lanes replaced
Other(j, v) == Mix(j, v, Rot(v))

OtherVec(j, c) == [s \in CoeffSlots |-> Other(j, c[s])]

Pair(a, b) == [i \in {1, 2} |-> IF i = 1 THEN a ELSE b]

InitLanes ==
    /\ probe \in Lanes
    /\ \E c \in Cfgs :
          /\ cfg = Pair(c, c)
          /\ \E c0 \in StartsOf(c) :
                /\ unit = Pair(NewUnit(c0), NewUnit(OtherVec(probe, c0)))
                /\ hist = Pair(NewHist(c0), NewHist(OtherVec(probe, c0)))
    /\ out = Pair(Zero, Zero)
    /\ maker = NoMaker

\* block boundary of both units
RetargetLanes ==
    /\ \E d \in Deltas :
          \E t1 \in { TargetAt(unit[1], d) },
             t2 \in { TargetAt(unit[2], OtherVec(probe, d)) } :
              /\ RetargetTo(1, t1)
              /\ RetargetTo(2, t2)
              /\ unit' = Pair(FromDirect(unit[1], t1), FromDirect(unit[2], t2))
              /\ hist' = Pair(Retargeted(1, t1), Retargeted(2, t2))
    /\ UNCHANGED <<cfg, out, maker, probe>>

\* one sample of both units
ProcessLanes ==
    /\ CanProcess(1)
    /\ CanProcess(2)
    /\ \E input \in InputGroups :
          \E r1 \in { ProcessOf(cfg[1], unit[1], input) },
             r2 \in { ProcessOf(cfg[2], unit[2], Other(probe, input)) } :
              /\ unit' = Pair(r1.f, r2.f)
              /\ out' = Pair(r1.result, r2.result)
              /\ hist' = Pair(Processed(1, input), Processed(2, Other(probe, input)))
    /\ UNCHANGED <<cfg, maker, probe>>

NextLanes == RetargetLanes \/ ProcessLanes

SpecLanes == InitLanes /\ [][NextLanes]_vars

----------------------------------------------------------------------------
(* Properties of one unit (Spec)                                           *)

ZeroRegs == [r \in RegSlots |-> Zero]

\* c + n * d, slot by slot and lane by lane
Ramp(c, d, n) == [s \in CoeffSlots |-> A(c[s], M(F(IntF(n)), d[s]))]

\* the unit as the last call found it, with the coefficients of the n-th sample
\* of the block in place of those it held
AtSample(n) ==
    [C |-> Ramp(hist[1].Cstart, unit[1].dC, n), dC |-> unit[1].dC, R |-> hist[1].preR]

\* the recurrence of the configured routine, without any coefficient advance
RecurrenceOf(c, f, input) ==
    IF c.family = "k35"
    THEN (IF c.is_lowpass THEN lp_recurrence(f, input) ELSE hp_recurrence(f, input))
    ELSE stage_loop(f, input, 0, c.subtype % 4, (c.subtype \div 4) % 4)

\* the last call left the registers and the output that the recurrence gives on
\* the coefficients of sample n
RecurrenceUsed(n) ==
    /\ RecurrenceOf(cfg[1], AtSample(n), hist[1].input).f.R = unit[1].R
    /\ RecurrenceOf(cfg[1], AtSample(n), hist[1].input).result = out[1]

Called == hist[1].armed /\ hist[1].n >= 1

\* C1 (as amended): the n-th call after a retarget runs the recurrence on
\* C_start + n*dC in the K35 routines, which advance first, and on
\* C_start + (n-1)*dC in ResonanceWarp process, which advances last
AdvanceOrder ==
    Called =>
        IF cfg[1].family = "k35" THEN RecurrenceUsed(hist[1].n)
        ELSE RecurrenceUsed(hist[1].n - 1)

\* C1 (as stated): in both families the recurrence of the n-th call uses
\* C_start + n*dC
AdvanceFirstEverywhere == Called => RecurrenceUsed(hist[1].n)

\* a ResonanceWarp call whose output differs from the one the advanced
\* coefficients would have given
AdvanceOrderSeen ==
    /\ Called
    /\ cfg[1].family = "nls"
    /\ hist[1].n = BlockLength
    /\ RecurrenceUsed(hist[1].n - 1)
    /\ RecurrenceOf(cfg[1], AtSample(hist[1].n), hist[1].input).result # out[1]

\* the slots a routine advances
AdvancedSlots(c) == IF c.family = "k35" THEN CoeffSlots ELSE 0..(n_nls_coeff - 1)

\* C2: n calls into a block every advanced coefficient is C_start + n*dC, that
\* is n*dC when the block started from zero, whatever the inputs and registers
\* were, and after blockLength calls it is the target
RampLinear ==
    hist[1].armed =>
        \A s \in AdvancedSlots(cfg[1]) :
            /\ unit[1].C[s] = Ramp(hist[1].Cstart, unit[1].dC, hist[1].n)[s]
            /\ hist[1].Cstart[s] = Zero =>
                   unit[1].C[s] = M(F(IntF(hist[1].n)), unit[1].dC[s])
            /\ hist[1].n = BlockLength => unit[1].C[s] = hist[1].target[s]

\* a block run from zero to its end on non-zero input
RampFinished ==
    /\ hist[1].armed
    /\ hist[1].n = BlockLength
    /\ hist[1].Cstart = ZeroVec
    /\ unit[1].C[k35_G] # Zero
    /\ ~hist[1].zeroIn
    /\ unit[1].R # ZeroRegs

\* C3 (as amended): a K35 call adds dC to every one of the 8 slots; a
\* ResonanceWarp call adds dC to slots 0..4 and leaves slots 5..7 as they were
SlotsAdvanced ==
    Called =>
        \A s \in CoeffSlots :
            IF s \in AdvancedSlots(cfg[1])
            THEN unit[1].C[s] = A(hist[1].preC[s], unit[1].dC[s])
            ELSE unit[1].C[s] = hist[1].preC[s]

\* C3 (as stated): in both families a call adds dC to every one of the 8 slots
AllSlotsAdvanced ==
    Called => \A s \in CoeffSlots : unit[1].C[s] = A(hist[1].preC[s], unit[1].dC[s])

\* a ResonanceWarp call with a non-zero delta in a slot past the fifth
SlotSkipped ==
    /\ Called
    /\ cfg[1].family = "nls"
    /\ unit[1].dC[n_nls_coeff] # Zero
    /\ unit[1].C[n_nls_coeff] = hist[1].preC[n_nls_coeff]

\* C4: from zero registers, as long as every input was zero, every call returns
\* zero and leaves every register zero, in every routine and variant
ZeroInZeroOut ==
    (hist[1].zeroIn /\ hist[1].calls >= 1) => (out[1] = Zero /\ unit[1].R = ZeroRegs)

\* all calls of a behaviour made on zero input while the coefficients moved
ZeroRunSeen ==
    /\ hist[1].zeroIn
    /\ hist[1].calls = MaxCalls
    /\ unit[1].C # hist[1].Cstart
    /\ unit[1].C[k35_G] # Zero
    /\ out[1] = Zero

\* C10 (as amended): after a K35 lowpass call that found every register zero,
\* lz is 2 * G * input, G being the coefficient the call used
LzAfterCall ==
    (Called /\ cfg[1].family = "k35" /\ cfg[1].is_lowpass /\ hist[1].preR = ZeroRegs) =>
        unit[1].R[k35_lz] = M(F(IntF(2)), M(unit[1].C[k35_G], hist[1].input))

\* C10 (as stated): after such a call lz is G * input
LzIsGTimesInput ==
    (Called /\ cfg[1].family = "k35" /\ cfg[1].is_lowpass /\ hist[1].preR = ZeroRegs) =>
        unit[1].R[k35_lz] = M(unit[1].C[k35_G], hist[1].input)

\* a first lowpass call on non-zero input with a non-zero G
LzSeen ==
    /\ Called
    /\ cfg[1].family = "k35"
    /\ cfg[1].is_lowpass
    /\ hist[1].preR = ZeroRegs
    /\ hist[1].input # Zero
    /\ unit[1].R[k35_lz] # Zero

----------------------------------------------------------------------------
(* Properties of two units side by side (SpecLanes)                        *)

\* C6: lane probe of the output, of every register and of every coefficient
\* and delta is the same in both units, whatever the other lanes hold
LanesApart ==
    /\ out[1][probe] = out[2][probe]
    /\ \A r \in RegSlots : unit[1].R[r][probe] = unit[2].R[r][probe]
    /\ \A s \in CoeffSlots : /\ unit[1].C[s][probe] = unit[2].C[s][probe]
                             /\ unit[1].dC[s][probe] = unit[2].dC[s][probe]

\* both units called to the end, their outputs and registers differing in some
\* other lane and non-zero in lane probe
LanesDiffer ==
    /\ hist[1].calls = MaxCalls
    /\ out[1] # out[2]
    /\ unit[1].R # unit[2].R
    /\ unit[1].C # unit[2].C
    /\ out[1][probe] # IntF(0)

----------------------------------------------------------------------------
(* Properties of the coefficient makers (SpecMaker)                        *)

MadeK35 == maker.done /\ maker.family = "k35"

\* C7: the k the K35 maker writes is clamp(reso * 1.96, 0.01, 1.96), inside
\* [0.01, 1.96] for every resonance
KClamped ==
    MadeK35 =>
        /\ maker.C[k35_k] =
              stdclamp(fmul(maker.args.reso, Rat(196, 100)), Rat(1, 100), Rat(196, 100))
        /\ fle(Rat(1, 100), maker.C[k35_k])
        /\ fle(maker.C[k35_k], Rat(196, 100))

\* a negative resonance, clamped up to 0.01
KClampedSeen ==
    /\ MadeK35
    /\ flt(maker.args.reso, IntF(0))
    /\ maker.C[k35_k] = Rat(1, 100)

\* the provider's frequency, the upper end of the interval and the frequency a
\* maker call should use
WantedFreq(pitch, sampleRate) ==
    IF flt(provider_freq(pitch), IntF(5)) THEN IntF(5)
    ELSE IF flt(fmul(Rat(3, 10), sampleRate), provider_freq(pitch))
         THEN fmul(Rat(3, 10), sampleRate)
         ELSE provider_freq(pitch)

\* G as the K35 maker derives it from a frequency: g / (1 + g), g = tan(pi f / sr)
GOf(freq, sampleRate) ==
    fdiv(fasttan(fdiv(freq, sampleRate)),
         fadd(IntF(1), fasttan(fdiv(freq, sampleRate))))

\* C8: the frequency a maker uses lies in [5, 0.3 * sampleRate]: the provider's
\* when that is inside, 5 when it is below, 0.3 * sampleRate when it is above;
\* the G of the K35 maker is the one of that frequency
FreqClamped ==
    maker.done =>
        /\ maker.freq = WantedFreq(maker.args.pitch, maker.args.sampleRate)
        /\ fle(IntF(5), maker.freq)
        /\ fle(maker.freq, fmul(Rat(3, 10), maker.args.sampleRate))
        /\ maker.family = "k35" =>
               maker.C[k35_G] = GOf(WantedFreq(maker.args.pitch, maker.args.sampleRate),
                                    maker.args.sampleRate)

\* a K35 call whose pitch lies above the interval
FreqClampedSeen ==
    /\ MadeK35
    /\ flt(fmul(Rat(3, 10), maker.args.sampleRate), provider_freq(maker.args.pitch))
    /\ maker.freq = fmul(Rat(3, 10), maker.args.sampleRate)

\* C9 (as stated): the blend coefficient and the inverse blend coefficient the
\* K35 maker writes are in [0, 1] for every saturation amount
BlendClamped ==
    MadeK35 =>
        /\ fle(IntF(0), maker.C[k35_saturation_blend])
        /\ fle(maker.C[k35_saturation_blend], IntF(1))
        /\ fle(IntF(0), maker.C[k35_saturation_blend_inv])
        /\ fle(maker.C[k35_saturation_blend_inv], IntF(1))

----------------------------------------------------------------------------
(* Superposition: three K35 lowpass units on the same constant             *)
(* coefficients, the third fed a weighted sum of the inputs of the first   *)
(* two.  The coefficients come from the maker, one saturation amount per   *)
(* lane.                                                                   *)

\* saturation amount of each lane: two lanes clean, one half driven, one driven
LaneSaturation == <<IntF(0), IntF(0), Rat(1, 2), IntF(1)>>

\* the weights of the sum, lane by lane
WeightA == <<IntF(2), IntF(1), IntF(-1), IntF(2)>>

WeightB == <<IntF(-1), IntF(1), IntF(2), Rat(1, 2)>>

\* maker arguments of the runs: pitch, resonance and sample rate
LinearArgs ==
    { [pitch |-> 0, reso |-> Rat(100, 147), sampleRate |-> IntF(1760)],
      [pitch |-> -96, reso |-> Rat(100, 147), sampleRate |-> IntF(50)] }

\* process calls per unit in one superposition run
LinearCalls == 2

\* the inputs of the first and of the second unit
LinearInputs1 == InputGroups \cup { <<IntF(-2), Rat(1, 2), IntF(1), IntF(-1)>> }

LinearInputs2 == { Zero,
                   <<IntF(2), IntF(1), IntF(-1), IntF(1)>>,
                   <<Rat(1, 2), IntF(0), IntF(1), IntF(-2)>> }

\* the target the lowpass maker builds for lane l
LaneTarget(a, l) ==
    k35_makeCoefficients(a.pitch, a.reso, TRUE, LaneSaturation[l], a.sampleRate,
                         fdiv(IntF(1), a.sampleRate))

\* the coefficient vector of the unit: lane l from the maker call of lane l
LinearC(a) ==
    [s \in CoeffSlots |->
        <<LaneTarget(a, 1)[s], LaneTarget(a, 2)[s], LaneTarget(a, 3)[s],
          LaneTarget(a, 4)[s]>>]

Triple(a, b, c) == [i \in {1, 2, 3} |-> IF i = 1 THEN a ELSE IF i = 2 THEN b ELSE c]

InitLinear ==
    /\ cfg = Triple(K35Cfg(TRUE), K35Cfg(TRUE), K35Cfg(TRUE))
    /\ \E a \in LinearArgs :
          /\ unit = Triple(NewUnit(LinearC(a)), NewUnit(LinearC(a)), NewUnit(LinearC(a)))
          /\ hist = Triple(NewHist(LinearC(a)), NewHist(LinearC(a)), NewHist(LinearC(a)))
    /\ out = Triple(Zero, Zero, Zero)
    /\ maker = NoMaker
    /\ probe = 0

\* the input of the third unit
Weighted(x1, x2) == A(M(WeightA, x1), M(WeightB, x2))

\* one sample of the three units, the deltas being zero
ProcessLinear ==
    /\ hist[1].calls < LinearCalls
    /\ \E x1 \in LinearInputs1, x2 \in LinearInputs2 :
          \E r1 \in { process_lp(unit[1], x1) },
             r2 \in { process_lp(unit[2], x2) },
             r3 \in { process_lp(unit[3], Weighted(x1, x2)) } :
              /\ unit' = Triple(r1.f, r2.f, r3.f)
              /\ out' = Triple(r1.result, r2.result, r3.result)
              /\ hist' = Triple(Processed(1, x1), Processed(2, x2),
                                Processed(3, Weighted(x1, x2)))
    /\ UNCHANGED <<cfg, maker, probe>>

NextLinear == ProcessLinear

SpecLinear == InitLinear /\ [][NextLinear]_vars

----------------------------------------------------------------------------
(* Properties of the superposition runs (SpecLinear)                       *)

\* a * v1 + b * v2 with the weights of the run
Superposed(v1, v2) == A(M(WeightA, v1), M(WeightB, v2))

\* the lanes whose saturation amount is zero
CleanLanes == { l \in Lanes : LaneSaturation[l] = IntF(0) }

\* the unit i as its last call found it
Before(i) == [unit[i] EXCEPT !.C = hist[i].preC, !.R = hist[i].preR]

\* alpha * (y1 + s) of the last call of unit i, on constant coefficients
CleanOf(i) ==
    M(unit[i].C[k35_alpha],
      A(doLpf(unit[i].C[k35_G], hist[i].input, hist[i].preR[k35_lz]).result,
        A(M(unit[i].C[k35_lb], hist[i].preR[k35_2z]),
          M(unit[i].C[k35_hb], hist[i].preR[k35_hz]))))

\* (1 - s) * clean + s * sat(s * clean), s the saturation amount of each lane
ConvexBlend(clean) ==
    A(M(S(F(IntF(1)), LaneSaturation), clean),
      M(LaneSaturation, fasttanhSSEclamped(M(LaneSaturation, clean))))

\* the lowpass call of unit i with the convex blend fed to its second stage
FedConvex(i) ==
    lp_second([Before(i) EXCEPT
                  !.R[k35_lz] = doLpf(unit[i].C[k35_G], hist[i].input,
                                      hist[i].preR[k35_lz]).z],
              doLpf(unit[i].C[k35_G], ConvexBlend(CleanOf(i)), hist[i].preR[k35_2z]))

\* C11: on constant coefficients, in the lanes with saturation 0 the outputs
\* and registers of the unit fed a*x1 + b*x2 are a times those of the unit fed
\* x1 plus b times those of the unit fed x2; and in every lane, saturation s
\* in [0, 1], the second stage is fed (1-s)*u_clean + s*sat(s*u_clean)
LowpassLinear ==
    hist[1].calls >= 1 =>
        /\ \A l \in CleanLanes :
              /\ out[3][l] = Superposed(out[1], out[2])[l]
              /\ \A r \in RegSlots :
                    unit[3].R[r][l] = Superposed(unit[1].R[r], unit[2].R[r])[l]
        /\ \A i \in {1, 2, 3} :
              /\ FedConvex(i).f.R = unit[i].R
              /\ FedConvex(i).result = out[i]

\* two calls made, the clean lanes carrying signal and a driven lane where
\* superposition fails
LowpassLinearSeen ==
    /\ hist[1].calls = LinearCalls
    /\ \A l \in CleanLanes : out[3][l] # IntF(0) /\ unit[3].R[k35_2z][l] # IntF(0)
    /\ out[1] # Zero
    /\ out[2] # Zero
    /\ \E l \in Lanes \ CleanLanes : out[3][l] # Superposed(out[1], out[2])[l]

----------------------------------------------------------------------------
(* Properties of the ResonanceWarp stages (Spec)                           *)

\* the stage count field and the saturator field of the configured subtype
StagesOf(c) == c.subtype % 4

SatOf(c) == (c.subtype \div 4) % 4

\* |v| <= 1 in every lane
WithinOne(v) == \A l \in Lanes : fle(fabs(v[l]), IntF(1))

\* the unit as the last call found it
Pre == [unit[1] EXCEPT !.C = hist[1].preC, !.R = hist[1].preR]

\* the output of stage k of the last call; the call's input for k = -1
StageOut(k) ==
    IF k < 0 THEN hist[1].input
    ELSE stage_loop(Pre, hist[1].input, 0, k, SatOf(cfg[1])).result

----------------------------------------------------------------------------
(* Lifecycle of one unit: Uninitialized at construction and after a reset, *)
(* Running after a process call.  The host runs its block loop as before   *)
(* and may reset a Running unit at any point.                              *)

\* a reset that clears the three registers the K35 routines use and no other
ResetUnit_k35(f) ==
    [f EXCEPT !.R = [r \in RegSlots |-> IF r <= k35_2z THEN Zero ELSE f.R[r]]]

\* explicit reset of the register file: every register to zero, C and dC kept
ResetUnit(f) == [f EXCEPT !.R = [r \in RegSlots |-> Zero]]

Reset(i) ==
    /\ hist[i].phase = "Running"
    /\ unit' = [unit EXCEPT ![i] = ResetUnit(unit[i])]
    /\ hist' = [hist EXCEPT ![i].phase = "Uninitialized"]
    /\ UNCHANGED <<cfg, out, maker, probe>>

NextLife == Retarget(1) \/ Process(1) \/ Reset(1)

SpecLife == Init /\ [][NextLife]_vars

\* the process routine has a defined successor for every input: registers and
\* output are finite numbers
ProcessDefined(i) ==
    \A input \in InputGroups :
        \A p \in { ProcessOf(cfg[i], unit[i], input) } :
            \A l \in Lanes :
                /\ IsFinite(p.result[l])
                /\ \A r \in RegSlots : IsFinite(p.f.R[r][l])

\* C13: an Uninitialized unit (constructed or reset) has every register zero;
\* in either phase a process call of the block loop has a defined result for
\* every input, so neither phase is terminal; every process call leads to
\* Running and every reset leads back to Uninitialized with every register zero
Lifecycle ==
    /\ [](hist[1].phase = "Uninitialized" => unit[1].R = [r \in RegSlots |-> Zero])
    /\ [](hist[1].phase \in {"Uninitialized", "Running"})
    /\ [](CanProcess(1) => ProcessDefined(1))
    /\ [][/\ hist'[1].calls # hist[1].calls => hist'[1].phase = "Running"
          /\ (hist[1].phase = "Running" /\ hist'[1].phase = "Uninitialized") =>
                unit'[1].R = [r \in RegSlots |-> Zero]]_vars

\* a four-stage unit reset after a call that left its last register non-zero
LifecycleSeen ==
    /\ hist[1].phase = "Uninitialized"
    /\ hist[1].calls >= 1
    /\ hist[1].preR[NumRegs - 1] # Zero
    /\ unit[1].R = [r \in RegSlots |-> Zero]

----------------------------------------------------------------------------
(* Two instances interleaved: units 1 and 2 are called by the host in any  *)
(* order; units 3 and 4 are the same two instances each run alone through  *)
(* its own sequence of retargets and calls.                                *)

\* registers kept in one place for all instances, as a static would be
Store_shared(units, i, f) ==
    [j \in DOMAIN units |-> IF j = i THEN f ELSE [units[j] EXCEPT !.R = f.R]]

\* a routine writes through its pointer f and nowhere else
Store(units, i, f) == [units EXCEPT ![i] = f]

\* the configurations of the two instances
TwoCfgs ==
    { Pair(K35Cfg(TRUE), K35Cfg(TRUE)),
      Pair(K35Cfg(FALSE), NlsCfg("lp", 1)),
      Pair(NlsCfg("lp", 3), NlsCfg("lp", 3)) }

\* calls of each of the two instances
TwoCalls == 2

Alone(i) == i + 2

Quad(a, b) == [i \in 1..4 |-> IF i \in {1, 3} THEN a ELSE b]

InitTwo ==
    /\ cfg \in TwoCfgs
    /\ \E c1 \in StartsOf(cfg[1]) \ {ZeroVec}, c2 \in StartsOf(cfg[2]) \ {ZeroVec} :
          /\ unit = Quad(NewUnit(c1), NewUnit(c2))
          /\ hist = Pair(NewHist(c1), NewHist(c2))
    /\ out = Quad(Zero, Zero)
    /\ maker = NoMaker
    /\ probe = <<>>

\* block boundary of instance i, interleaved and alone
RetargetTwo(i) ==
    /\ \E d \in Deltas :
          \E target \in { TargetAt(unit[i], d) },
             alone \in { TargetAt(unit[Alone(i)], d) } :
              /\ hist[i].calls < TwoCalls
              /\ RetargetTo(i, target)
              /\ unit' = [Store(unit, i, FromDirect(unit[i], target))
                             EXCEPT ![Alone(i)] = FromDirect(unit[Alone(i)], alone)]
              /\ hist' = [hist EXCEPT ![i] = Retargeted(i, target)]
    /\ UNCHANGED <<cfg, out, maker, probe>>

\* one sample of instance i, interleaved and alone; probe logs the order
ProcessTwo(i) ==
    /\ CanProcess(i)
    /\ hist[i].calls < TwoCalls
    /\ \E input \in InputGroups :
          \E r \in { ProcessOf(cfg[i], unit[i], input) },
             alone \in { ProcessOf(cfg[i], unit[Alone(i)], input) } :
              /\ unit' = [Store(unit, i, r.f) EXCEPT ![Alone(i)] = alone.f]
              /\ out' = [out EXCEPT ![i] = r.result, ![Alone(i)] = alone.result]
              /\ hist' = [hist EXCEPT ![i] = Processed(i, input)]
    /\ probe' = Append(probe, i)
    /\ UNCHANGED <<cfg, maker>>

NextTwo == \E i \in {1, 2} : RetargetTwo(i) \/ ProcessTwo(i)

SpecTwo == InitTwo /\ [][NextTwo]_vars

\* instance i took the step
Stepped(i) == hist'[i] # hist[i]

\* C14: a retarget or process call of one instance leaves the C, dC and
\* registers (and the last output) of the other unchanged, and in every
\* interleaving each instance has the state and output it has run alone
NoSharedState ==
    /\ [](\A i \in {1, 2} : unit[i] = unit[Alone(i)] /\ out[i] = out[Alone(i)])
    /\ [][\A i \in {1, 2} : Stepped(i) =>
              /\ unit'[3 - i] = unit[3 - i]
              /\ out'[3 - i] = out[3 - i]]_vars

\* both instances called alternately, each with non-zero registers, in
\* different states
NoSharedStateSeen ==
    /\ Len(probe) >= 4
    /\ probe[1] = 1 /\ probe[2] = 2 /\ probe[3] = 1 /\ probe[4] = 2
    /\ \A i \in {1, 2} : unit[i].R[0] # Zero
    /\ unit[1].R # unit[2].R
    /\ cfg[1] = cfg[2]

----------------------------------------------------------------------------
(* The selector given to the ResonanceWarp maker (SpecMaker)               *)

MadeNls == maker.family = "nls" /\ maker.done

\* C15: a selector that is none of the five variants does not give the
\* coefficient vector of a valid variant
InvalidSelectorRejected ==
    (MadeNls /\ maker.args.type \notin ValidTypes) =>
        \A t \in ValidTypes :
            maker.C # nls_makeCoefficients(maker.args.pitch, maker.args.reso, t,
                                           maker.args.sampleRate)

----------------------------------------------------------------------------
(* The one-pole primitives on their own: G, input and the register are     *)
(* drawn, then doLpf or doHpf is applied once.                             *)

PrimG == { F(Rat(1, 2)), <<Rat(1, 4), Rat(1, 3), IntF(1), Rat(3, 4)>>,
           <<IntF(0), Rat(1, 10), Rat(2, 3), Rat(9, 10)>> }

PrimInputs == InputGroups \cup { <<IntF(3), Rat(-1, 3), IntF(0), Rat(5, 2)>>,
                                   <<Rat(-7, 4), IntF(1), IntF(1), IntF(-1)>> }

PrimRegs == { Zero, <<IntF(1), Rat(-1, 2), IntF(2), Rat(1, 3)>>,
              <<Rat(-3, 2), IntF(0), Rat(1, 4), IntF(-2)>>,
              <<IntF(1), IntF(-1), Rat(1, 2), IntF(2)>> }

InitPrim ==
    /\ cfg = <<>>
    /\ unit = <<>>
    /\ hist = <<>>
    /\ out = <<>>
    /\ maker = NoMaker
    /\ probe \in { [called |-> "", G |-> g, input |-> x, z |-> z, after |-> z,
                  result |-> Zero] :
                      g \in PrimG, x \in PrimInputs, z \in PrimRegs }

ApplyLpf ==
    /\ probe.called = ""
    /\ probe' = [called |-> "lpf", G |-> probe.G, input |-> probe.input, z |-> probe.z,
                 after |-> doLpf(probe.G, probe.input, probe.z).z,
                 result |-> doLpf(probe.G, probe.input, probe.z).result]
    /\ UNCHANGED <<unit, cfg, out, hist, maker>>

ApplyHpf ==
    /\ probe.called = ""
    /\ probe' = [called |-> "hpf", G |-> probe.G, input |-> probe.input, z |-> probe.z,
                 after |-> doHpf(probe.G, probe.input, probe.z).z,
                 result |-> doHpf(probe.G, probe.input, probe.z).result]
    /\ UNCHANGED <<unit, cfg, out, hist, maker>>

NextPrim == ApplyLpf \/ ApplyHpf

SpecPrim == InitPrim /\ [][NextPrim]_vars

\* the claim's formulas in one lane
LpfV(l) == fmul(fsub(probe.input[l], probe.z[l]), probe.G[l])
LpfY(l) == fadd(LpfV(l), probe.z[l])
LpfZ(l) == fadd(LpfV(l), LpfY(l))

\* C16: lpf returns y = v + z with v = (x - z) * G and stores v + y; hpf
\* returns x - y and stores the same v + y
Primitives ==
    /\ probe.called = "lpf" =>
          \A l \in Lanes : probe.result[l] = LpfY(l) /\ probe.after[l] = LpfZ(l)
    /\ probe.called = "hpf" =>
          \A l \in Lanes : /\ probe.result[l] = fsub(probe.input[l], LpfY(l))
                           /\ probe.after[l] = LpfZ(l)

\* hpf applied with a non-zero register, lanes with different G, and a
\* result that is neither the input nor the lowpass result
PrimitivesSeen ==
    /\ probe.called = "hpf"
    /\ probe.G[1] # probe.G[2]
    /\ \A l \in Lanes : /\ probe.z[l] # IntF(0)
                        /\ probe.result[l] # probe.input[l]
                        /\ probe.result[l] # LpfY(l)
                        /\ probe.after[l] # probe.z[l]

----------------------------------------------------------------------------
(* The K35 routines step by step, in one lane (Spec)                       *)

\* the coefficient of slot s the last call used, the register r it found and
\* its input, in lane l
Co(s, l) == unit[1].C[s][l]
Was(r, l) == hist[1].preR[r][l]
In(l) == hist[1].input[l]

\* lpf(G, x, z) in lane l: the value returned and the value stored
LpfRet(x, z, l) == fadd(fmul(fsub(x, z), Co(k35_G, l)), z)
LpfSto(x, z, l) == fadd(fmul(fsub(x, z), Co(k35_G, l)), LpfRet(x, z, l))

\* the blend of a clean value and its saturated version
Blend(clean, l) ==
    fadd(fmul(clean, Co(k35_saturation_blend_inv, l)),
         fmul(tanhlike(fmul(clean, Co(k35_saturation, l))), Co(k35_saturation_blend, l)))

LpY1(l) == LpfRet(In(l), Was(k35_lz, l), l)
LpS(l) == fadd(fmul(Co(k35_lb, l), Was(k35_2z, l)), fmul(Co(k35_hb, l), Was(k35_hz, l)))
LpU(l) == Blend(fmul(Co(k35_alpha, l), fadd(LpY1(l), LpS(l))), l)
LpY(l) == fmul(Co(k35_k, l), LpfRet(LpU(l), Was(k35_2z, l), l))

CalledLp == Called /\ cfg[1].family = "k35" /\ cfg[1].is_lowpass

\* C17: the lowpass call returns y / k with y = k * lpf(G, u, 2z), u the
\* blend of alpha * (y1 + s), y1 = lpf(G, input, lz), s = lb*2z + hb*hz on
\* the registers the previous call left; lz, 2z and hz are stored once each,
\* hz by hpf(G, y, hz), and no other register changes
LowpassSteps ==
    CalledLp =>
        /\ \A l \in Lanes :
              /\ out[1][l] = fdiv(LpY(l), Co(k35_k, l))
              /\ unit[1].R[k35_lz][l] = LpfSto(In(l), Was(k35_lz, l), l)
              /\ unit[1].R[k35_2z][l] = LpfSto(LpU(l), Was(k35_2z, l), l)
              /\ unit[1].R[k35_hz][l] = LpfSto(LpY(l), Was(k35_hz, l), l)
        /\ \A r \in RegSlots \ {k35_lz, k35_hz, k35_2z} : unit[1].R[r] = hist[1].preR[r]

\* a lowpass call on non-zero feedback registers, with a lane that blends
\* and a k other than 1, that moved all three registers
LowpassStepsSeen ==
    /\ CalledLp
    /\ \E l \in Lanes :
          /\ Was(k35_2z, l) # IntF(0) /\ Was(k35_hz, l) # IntF(0)
          /\ LpS(l) # IntF(0)
          /\ Co(k35_saturation_blend, l) # IntF(0)
          /\ Co(k35_k, l) # IntF(1)
          /\ \A r \in {k35_lz, k35_hz, k35_2z} : unit[1].R[r][l] # Was(r, l)
          /\ out[1][l] # IntF(0)


HpfRet(x, z, l) == fsub(x, LpfRet(x, z, l))

HpY1(l) == HpfRet(In(l), Was(k35_hz, l), l)
HpS(l) == fadd(fmul(Co(k35_hb, l), Was(k35_2z, l)), fmul(Co(k35_lb, l), Was(k35_lz, l)))
HpU(l) == fmul(Co(k35_alpha, l), fadd(HpY1(l), HpS(l)))
HpY(l) == Blend(fmul(Co(k35_k, l), HpU(l)), l)

\* the lowpass steps with lpf and hpf, lz and hz, lb and hb swapped
MirrorU(l) == Blend(HpU(l), l)
MirrorY(l) == fmul(Co(k35_k, l), HpfRet(MirrorU(l), Was(k35_2z, l), l))

CalledHp == Called /\ cfg[1].family = "k35" /\ ~cfg[1].is_lowpass

----------------------------------------------------------------------------
(* The ResonanceWarp stages step by step, in one lane (Spec)               *)

CalledNls == Called /\ cfg[1].family = "nls"

\* the coefficient of slot s the last call ran on: process advances last
Had(s, l) == hist[1].preC[s][l]

\* the saturator of the configuration, on one value
Sat1(x) == IF SatOf(cfg[1]) = SAT_TANH THEN tanhlike(x) ELSE softclip(x)

\* stage i of the last call in lane l: its input, its output and the values
\* before saturation of its two registers
StageIn(i, l) == StageOut(i - 1)[l]
StageO(i, l) == fadd(Was(nls_z1 + 2 * i, l), fmul(Had(nls_b0, l), StageIn(i, l)))
StageZ1(i, l) ==
    fsub(fadd(Was(nls_z2 + 2 * i, l), fmul(Had(nls_b1, l), StageIn(i, l))),
         fmul(Had(nls_a1, l), StageO(i, l)))
StageZ2(i, l) ==
    fsub(fmul(Had(nls_b2, l), StageIn(i, l)), fmul(Had(nls_a2, l), StageO(i, l)))

\* C19: each stage returns out = z1 + b0*input, unsaturated, on the z1 it
\* found, and stores z1' = sat(z2 + b1*input - a1*out) on the z2 it found and
\* z2' = sat(b2*input - a2*out)
StageFormulas ==
    CalledNls =>
        \A i \in 0..StagesOf(cfg[1]) : \A l \in Lanes :
            /\ StageOut(i)[l] = StageO(i, l)
            /\ unit[1].R[nls_z1 + 2 * i][l] = Sat1(StageZ1(i, l))
            /\ unit[1].R[nls_z2 + 2 * i][l] = Sat1(StageZ2(i, l))

\* a stage that found both registers non-zero, clipped its new z1 and
\* returned an output above 1
StageFormulasSeen ==
    /\ CalledNls
    /\ \E i \in 0..StagesOf(cfg[1]) : \E l \in Lanes :
          /\ Was(nls_z1 + 2 * i, l) # IntF(0)
          /\ Was(nls_z2 + 2 * i, l) # IntF(0)
          /\ StageIn(i, l) # IntF(0)
          /\ Sat1(StageZ1(i, l)) # StageZ1(i, l)
          /\ Sat1(StageZ2(i, l)) # Was(nls_z2 + 2 * i, l)
          /\ flt(IntF(1), fabs(StageO(i, l)))


RECURSIVE ChainIn(_, _)

\* the input of stage i of the last call in lane l: the call's input for stage
\* 0, the output of stage i - 1 for the others
ChainIn(i, l) ==
    IF i = 0 THEN In(l)
    ELSE fadd(Was(nls_z1 + 2 * (i - 1), l), fmul(Had(nls_b0, l), ChainIn(i - 1, l)))

ChainOut(i, l) == ChainIn(i + 1, l)

\* the registers stage i stores when its input is x
ChainZ1(i, l) ==
    Sat1(fsub(fadd(Was(nls_z2 + 2 * i, l), fmul(Had(nls_b1, l), ChainIn(i, l))),
              fmul(Had(nls_a1, l), ChainOut(i, l))))
ChainZ2(i, l) ==
    Sat1(fsub(fmul(Had(nls_b2, l), ChainIn(i, l)), fmul(Had(nls_a2, l), ChainOut(i, l))))

\* stages of a register file of NumRegs slots
MaxStage == (NumRegs \div 2) - 1

\* C20: a call of a subtype with stage field s runs stages 0..s in order,
\* stage i on registers 2i and 2i+1 with the output of stage i-1 as input,
\* returns the output of stage s and leaves the registers of later stages alone
StageCount ==
    CalledNls =>
        /\ \A l \in Lanes : out[1][l] = ChainOut(StagesOf(cfg[1]), l)
        /\ \A i \in 0..StagesOf(cfg[1]) : \A l \in Lanes :
              /\ unit[1].R[2 * i][l] = ChainZ1(i, l)
              /\ unit[1].R[2 * i + 1][l] = ChainZ2(i, l)
        /\ \A i \in (StagesOf(cfg[1]) + 1)..MaxStage :
              /\ unit[1].R[2 * i] = hist[1].preR[2 * i]
              /\ unit[1].R[2 * i + 1] = hist[1].preR[2 * i + 1]

\* a three-stage call whose stages all found and left non-zero registers, each
\* stage's output differing from its input, with the fourth stage untouched
StageCountSeen ==
    /\ CalledNls
    /\ StagesOf(cfg[1]) = 2
    /\ \E l \in Lanes :
          /\ \A i \in 0..2 : /\ Was(2 * i, l) # IntF(0)
                             /\ ChainOut(i, l) # ChainIn(i, l)
                             /\ unit[1].R[2 * i][l] # Was(2 * i, l)
          /\ out[1][l] # ChainOut(1, l)
    /\ unit[1].R[6] = Zero /\ unit[1].R[7] = Zero


\* bits 2-3 of the subtype
SatField == (cfg[1].subtype \div 4) % 4

\* C21: the registers of every active stage are stored through the tanh-like
\* saturator when bits 2-3 of the subtype are 0 and through the soft clip when
\* they are 1, 2 or 3, the same for all stages of the call
SaturatorSelection ==
    CalledNls =>
        \A i \in 0..StagesOf(cfg[1]) : \A l \in Lanes :
            /\ SatField = 0 =>
                  /\ unit[1].R[nls_z1 + 2 * i][l] = tanhlike(StageZ1(i, l))
                  /\ unit[1].R[nls_z2 + 2 * i][l] = tanhlike(StageZ2(i, l))
            /\ SatField \in 1..3 =>
                  /\ unit[1].R[nls_z1 + 2 * i][l] = softclip(StageZ1(i, l))
                  /\ unit[1].R[nls_z2 + 2 * i][l] = softclip(StageZ2(i, l))

\* a call with field 3 and two or more stages, where the last stage stored a
\* value on which the two saturators differ
SaturatorSelectionSeen ==
    /\ CalledNls
    /\ SatField = 3
    /\ StagesOf(cfg[1]) >= 1
    /\ \E l \in Lanes :
          tanhlike(StageZ1(StagesOf(cfg[1]), l)) # softclip(StageZ1(StagesOf(cfg[1]), l))


\* C22: every active stage of a ResonanceWarp call runs on the coefficient
\* values the call found, and after the call each of the five coefficients is
\* that value plus dC, once, whatever the stage count
SharedCoefficients ==
    CalledNls =>
        /\ \A i \in 0..StagesOf(cfg[1]) : \A l \in Lanes :
              /\ unit[1].R[nls_z1 + 2 * i][l] = ChainZ1(i, l)
              /\ unit[1].R[nls_z2 + 2 * i][l] = ChainZ2(i, l)
        /\ \A l \in Lanes : out[1][l] = ChainOut(StagesOf(cfg[1]), l)
        /\ \A s \in 0..(n_nls_coeff - 1) : \A l \in Lanes :
              unit[1].C[s][l] = fadd(Had(s, l), unit[1].dC[s][l])

\* a four-stage call during a ramp that moves b0 and a1, whose last stage
\* stored non-zero registers
SharedCoefficientsSeen ==
    /\ CalledNls
    /\ StagesOf(cfg[1]) = MaxStage
    /\ \E l \in Lanes :
          /\ unit[1].dC[nls_b0][l] # IntF(0)
          /\ unit[1].dC[nls_a1][l] # IntF(0)
          /\ unit[1].R[nls_z1 + 2 * MaxStage][l] # IntF(0)
          /\ ChainIn(MaxStage, l) # IntF(0)
          /\ Was(nls_z1, l) # IntF(0)

----------------------------------------------------------------------------
(* The coefficients the makers write (SpecMaker)                           *)

\* the quantities of a cascade maker call, from its arguments
NlsReso ==
    IF flt(maker.args.reso, IntF(0)) THEN IntF(0)
    ELSE IF flt(IntF(1), maker.args.reso) THEN IntF(1) ELSE maker.args.reso
NlsQ == fadd(fmul(fmul(NlsReso, fmul(NlsReso, NlsReso)), IntF(18)), Rat(1, 10))
NlsWc == fdiv(fmul(IntF(2), maker.freq), maker.args.sampleRate)
NlsAlpha == fdiv(fastsin(NlsWc), fmul(IntF(2), NlsQ))
NlsA0 == fadd(IntF(1), NlsAlpha)

Nls(s) == maker.C[s]

\* C23: the cascade maker clamps the resonance to [0, 1], so q = reso^3 * 18 +
\* 0.1 is in [0.1, 18.1]; a1 = -2 cos / a0 and a2 = (1 - alpha) / a0 with
\* a0 = 1 + alpha; the numerator is, by variant, lowpass b0 = b2 = b1 / 2,
\* highpass b0 = b2 = -b1 / 2, notch b0 = b2 = 1 / a0 and b1 = a1, bandpass
\* b1 = 0 and b2 = -b0, allpass b0 = a2, b1 = a1, b2 = 1
CascadeCoefficients ==
    (MadeNls /\ maker.args.type \in ValidTypes) =>
        /\ fle(Rat(1, 10), NlsQ) /\ fle(NlsQ, Rat(181, 10))
        /\ Nls(nls_a1) = fdiv(fmul(IntF(-2), fastcos(NlsWc)), NlsA0)
        /\ Nls(nls_a2) = fdiv(fsub(IntF(1), NlsAlpha), NlsA0)
        /\ maker.args.type = "lp" =>
              /\ Nls(nls_b1) = fdiv(fsub(IntF(1), fastcos(NlsWc)), NlsA0)
              /\ Nls(nls_b0) = fmul(Nls(nls_b1), Rat(1, 2))
              /\ Nls(nls_b2) = Nls(nls_b0)
        /\ maker.args.type = "hp" =>
              /\ Nls(nls_b1) = fneg(fdiv(fadd(IntF(1), fastcos(NlsWc)), NlsA0))
              /\ Nls(nls_b0) = fmul(Nls(nls_b1), Rat(-1, 2))
              /\ Nls(nls_b2) = Nls(nls_b0)
        /\ maker.args.type = "n" =>
              /\ Nls(nls_b0) = fdiv(IntF(1), NlsA0)
              /\ Nls(nls_b1) = Nls(nls_a1)
              /\ Nls(nls_b2) = Nls(nls_b0)
        /\ maker.args.type = "bp" =>
              /\ Nls(nls_b0) = fdiv(fmul(fastsin(NlsWc), Rat(1, 2)), NlsA0)
              /\ Nls(nls_b1) = IntF(0)
              /\ Nls(nls_b2) = fneg(Nls(nls_b0))
        /\ maker.args.type = "ap" =>
              /\ Nls(nls_b0) = Nls(nls_a2)
              /\ Nls(nls_b1) = Nls(nls_a1)
              /\ Nls(nls_b2) = IntF(1)

\* a notch call with a resonance above 1, made at q = 18.1
CascadeCoefficientsSeen ==
    /\ MadeNls
    /\ maker.args.type = "n"
    /\ flt(IntF(1), maker.args.reso)
    /\ NlsQ = Rat(181, 10)
    /\ Nls(nls_b1) # IntF(0)
    /\ Nls(nls_b0) # IntF(1)


\* C24: the K35 maker writes the saturation amount as given, the blend as the
\* smaller of it and 1, and the inverse blend as 1 minus the blend, so blend
\* and inverse blend sum to 1
BlendComplement ==
    MadeK35 =>
        /\ maker.C[k35_saturation] = maker.args.saturation
        /\ maker.C[k35_saturation_blend] =
              (IF flt(maker.args.saturation, IntF(1)) THEN maker.args.saturation
               ELSE IntF(1))
        /\ maker.C[k35_saturation_blend_inv] = fsub(IntF(1), maker.C[k35_saturation_blend])
        /\ fadd(maker.C[k35_saturation_blend], maker.C[k35_saturation_blend_inv]) = IntF(1)

\* a saturation amount above 1: the raw slot keeps it, the blend is 1 and the
\* inverse blend 0
BlendComplementSeen ==
    /\ MadeK35
    /\ flt(IntF(1), maker.args.saturation)
    /\ maker.C[k35_saturation] = maker.args.saturation
    /\ maker.C[k35_saturation_blend] = IntF(1)
    /\ maker.C[k35_saturation_blend_inv] = IntF(0)

----------------------------------------------------------------------------
(* What a process call writes (Spec)                                       *)

\* the step is a process call of the unit
ProcessStep == hist'[1].calls # hist[1].calls

\* C25: a process call of either family writes the unit's registers and its
\* current coefficients and nothing else: dC, the only other field of the
\* unit, and the configuration keep their values
ProcessFrame ==
    [][ProcessStep =>
          /\ DOMAIN unit'[1] = {"C", "dC", "R"}
          /\ unit'[1].dC = unit[1].dC
          /\ cfg' = cfg
          /\ maker' = maker]_vars

\* a call that changed registers and coefficients while a non-zero ramp was
\* running, with the deltas still those of the ramp
ProcessFrameSeen ==
    /\ Called
    /\ hist[1].n = BlockLength
    /\ unit[1].R # hist[1].preR
    /\ unit[1].C # hist[1].preC
    /\ unit[1].dC # ZeroVec
    /\ unit[1].dC = FromDirect([unit[1] EXCEPT !.C = hist[1].Cstart], hist[1].target).dC

----------------------------------------------------------------------------
(* A K35 unit whose host may run past the end of a block: process is       *)
(* called while calls are left, whether or not the block is over.          *)

\* per-sample deltas that move k alone
OverrunDeltas ==
    { [s \in CoeffSlots |-> IF s = k35_k THEN q ELSE Zero] :
        q \in { <<Rat(-1, 3), Rat(-1, 3), Rat(-1, 6), Rat(-1, 3)>>,
                <<Rat(-1, 4), Rat(-1, 4), Rat(-1, 8), Rat(-1, 4)>>,
                F(Rat(1, 8)), F(Rat(1, 4)) } }

InitOverrun ==
    /\ cfg \in [{1} -> { K35Cfg(TRUE), K35Cfg(FALSE) }]
    /\ \E c0 \in StartsOf(cfg[1]) \ {ZeroVec} :
          /\ unit = [i \in {1} |-> NewUnit(c0)]
          /\ hist = [i \in {1} |-> NewHist(c0)]
    /\ out = [i \in {1} |-> Zero]
    /\ maker = NoMaker
    /\ probe = 0

\* block boundary, at the end of a block or later
RetargetOverrun ==
    /\ hist[1].calls < MaxCalls
    /\ ~hist[1].armed \/ hist[1].n >= BlockLength
    /\ \E d \in OverrunDeltas :
          \E target \in { TargetAt(unit[1], d) } :
              /\ TargetOK(cfg[1], target)
              /\ unit' = [unit EXCEPT ![1] = FromDirect(unit[1], target)]
              /\ hist' = [hist EXCEPT ![1] = Retargeted(1, target)]
    /\ UNCHANGED <<cfg, out, maker, probe>>

\* one sample, with no check of the block length
ProcessOverrun ==
    /\ hist[1].armed
    /\ hist[1].calls < MaxCalls
    /\ \E input \in InputGroups :
          \E r \in { ProcessOf(cfg[1], unit[1], input) } :
              /\ unit' = [unit EXCEPT ![1] = r.f]
              /\ out' = [out EXCEPT ![1] = r.result]
              /\ hist' = [hist EXCEPT ![1] = Processed(1, input)]
    /\ UNCHANGED <<cfg, maker, probe>>

NextOverrun == RetargetOverrun \/ ProcessOverrun

SpecOverrun == InitOverrun /\ [][NextOverrun]_vars

\* k of a coefficient vector is in [0.01, 1.96] in every lane
KInRange(c) ==
    \A l \in Lanes : fle(Rat(1, 100), c[k35_k][l]) /\ fle(c[k35_k][l], Rat(196, 100))

\* C26: when the block started and is aimed inside [0.01, 1.96] and no more
\* than blockLength calls were made since the retarget, the k a call divides
\* by is inside [0.01, 1.96] and the output is a finite number
RampedKInRange ==
    (/\ hist[1].armed
     /\ hist[1].n <= BlockLength
     /\ KInRange(hist[1].Cstart)
     /\ KInRange(hist[1].target)) =>
        /\ KInRange(unit[1].C)
        /\ \A l \in Lanes : IsFinite(out[1][l])

\* one call past the end of a block that started and was aimed inside the
\* range: the ramp went on and k reached zero, the call dividing by it
RampedKInRangeSeen ==
    /\ hist[1].armed
    /\ hist[1].n = BlockLength + 1
    /\ KInRange(hist[1].Cstart)
    /\ KInRange(hist[1].target)
    /\ \E l \in Lanes : unit[1].C[k35_k][l] = IntF(0) /\ ~IsFinite(out[1][l])


RECURSIVE PosLe(_, _, _, _)

\* a / b <= c / d for positive integers, by whole parts and then the
\* reciprocals of the remainders, so that no product is formed
PosLe(a, b, c, d) ==
    IF a \div b # c \div d THEN a \div b < c \div d
    ELSE IF a % b = 0 THEN TRUE
    ELSE IF c % d = 0 THEN FALSE
    ELSE PosLe(d, c % d, b, a % b)

\* a <= b and a < b for finite numbers of any size
SafeLe(a, b) ==
    /\ IsFinite(a) /\ IsFinite(b)
    /\ IF a[1] <= 0 /\ b[1] >= 0 THEN TRUE
       ELSE IF a[1] >= 0 /\ b[1] <= 0 THEN FALSE
       ELSE IF a[1] > 0 THEN PosLe(a[1], a[2], b[1], b[2])
       ELSE PosLe(-b[1], b[2], -a[1], a[2])

SafeLt(a, b) == SafeLe(a, b) /\ a # b

\* the denominator of alpha in the K35 maker, from the k and G it wrote
AlphaDen ==
    fadd(fsub(IntF(1), fmul(maker.C[k35_k], maker.C[k35_G])),
         fmul(fmul(maker.C[k35_k], maker.C[k35_G]), maker.C[k35_G]))

\* C27: no maker divides by zero: the K35 maker's G is strictly between 0 and
\* 1 and the denominator 1 - k*G + k*G*G of alpha is at least 0.51; the cascade
\* maker has q >= 0.1 and alpha >= 0, so a0 >= 1 and 1 / a0 is in (0, 1]; every
\* coefficient written is a finite number
MakerDivisions ==
    /\ MadeK35 =>
          /\ SafeLt(IntF(0), maker.C[k35_G]) /\ SafeLt(maker.C[k35_G], IntF(1))
          /\ SafeLe(Rat(51, 100), AlphaDen)
          /\ maker.C[k35_alpha] = fdiv(IntF(1), AlphaDen)
          /\ \A s \in CoeffSlots : IsFinite(maker.C[s])
    /\ MadeNls =>
          /\ SafeLe(Rat(1, 10), NlsQ)
          /\ SafeLe(IntF(0), NlsAlpha)
          /\ SafeLe(IntF(1), NlsA0)
          /\ SafeLt(IntF(0), fdiv(IntF(1), NlsA0))
          /\ SafeLe(fdiv(IntF(1), NlsA0), IntF(1))
          /\ \A s \in CoeffSlots : IsFinite(maker.C[s])

\* the K35 maker at its smallest denominator: G = 1/2 and k = 1.96
MakerDivisionsSeen ==
    /\ MadeK35
    /\ maker.C[k35_G] = Rat(1, 2)
    /\ maker.C[k35_k] = Rat(196, 100)
    /\ AlphaDen = Rat(51, 100)

----------------------------------------------------------------------------
(* A ResonanceWarp unit whose host changes the stage count: the unit is    *)
(* run with four stages and later with fewer, on the same register file.   *)

InitStages ==
    /\ cfg \in [{1} -> { NlsCfg("lp", 3), NlsCfg("lp", 7) }]
    /\ \E c0 \in StartsOf(cfg[1]) :
          /\ unit = [i \in {1} |-> NewUnit(c0)]
          /\ hist = [i \in {1} |-> NewHist(c0)]
    /\ out = [i \in {1} |-> Zero]
    /\ maker = NoMaker
    /\ probe = 0

\* the host goes on with process<subtype> of fewer stages and the same
\* saturator; probe keeps the number of calls made before the change
Restage ==
    /\ probe = 0
    /\ hist[1].calls >= 1
    /\ hist[1].calls < MaxCalls
    /\ \E s \in 0..(StagesOf(cfg[1]) - 1) :
          cfg' = [cfg EXCEPT ![1].subtype = 4 * SatOf(cfg[1]) + s]
    /\ probe' = hist[1].calls
    /\ UNCHANGED <<unit, out, hist, maker>>

NextStages == Retarget(1) \/ Process(1) \/ Restage

SpecStages == InitStages /\ [][NextStages]_vars

\* the first register of the stages a call of the configuration leaves out
FirstInactive == 2 * (StagesOf(cfg[1]) + 1)

\* C28: a ResonanceWarp call with stage field s leaves registers 2(s+1)..7 as
\* they were; the highest register it uses, 2s+1, is at most 7, and the
\* register file keeps its eight slots
InactiveStagesKept ==
    [][ProcessStep =>
          /\ \A r \in FirstInactive..(NumRegs - 1) : unit'[1].R[r] = unit[1].R[r]
          /\ nls_z2 + 2 * StagesOf(cfg[1]) <= NumRegs - 1
          /\ DOMAIN unit'[1].R = RegSlots]_vars

\* a call of fewer stages made after four-stage calls had left non-zero values
\* in the registers of the stages now inactive: the active ones moved, the
\* others did not
InactiveStagesKeptSeen ==
    /\ probe >= 1
    /\ hist[1].calls > probe
    /\ StagesOf(cfg[1]) <= 1
    /\ \A r \in FirstInactive..(NumRegs - 1) :
          unit[1].R[r] # Zero /\ unit[1].R[r] = hist[1].preR[r]
    /\ unit[1].R[nls_z1] # hist[1].preR[nls_z1]

----------------------------------------------------------------------------
(* Two ResonanceWarp units side by side, unit 2 with one stage more than   *)
(* unit 1: same coefficients, deltas, saturator, registers and inputs.     *)

InitPrefix ==
    /\ \E sat \in {SAT_TANH, SAT_SOFT} : \E s \in 0..(MaxStage - 1) :
          cfg = Pair(NlsCfg("lp", 4 * sat + s), NlsCfg("lp", 4 * sat + s + 1))
    /\ \E c0 \in StartsOf(cfg[1]) :
          /\ unit = Pair(NewUnit(c0), NewUnit(c0))
          /\ hist = Pair(NewHist(c0), NewHist(c0))
    /\ out = Pair(Zero, Zero)
    /\ maker = NoMaker
    /\ probe = 0

\* block boundary of both units, the same target
RetargetPrefix ==
    /\ \E d \in Deltas :
          \E t1 \in { TargetAt(unit[1], d) }, t2 \in { TargetAt(unit[2], d) } :
              /\ RetargetTo(1, t1)
              /\ RetargetTo(2, t2)
              /\ unit' = Pair(FromDirect(unit[1], t1), FromDirect(unit[2], t2))
              /\ hist' = Pair(Retargeted(1, t1), Retargeted(2, t2))
    /\ UNCHANGED <<cfg, out, maker, probe>>

\* one sample of both units, the same input
ProcessPrefix ==
    /\ CanProcess(1)
    /\ CanProcess(2)
    /\ \E input \in InputGroups :
          \E r1 \in { ProcessOf(cfg[1], unit[1], input) },
             r2 \in { ProcessOf(cfg[2], unit[2], input) } :
              /\ unit' = Pair(r1.f, r2.f)
              /\ out' = Pair(r1.result, r2.result)
              /\ hist' = Pair(Processed(1, input), Processed(2, input))
    /\ UNCHANGED <<cfg, maker, probe>>

NextPrefix == RetargetPrefix \/ ProcessPrefix

SpecPrefix == InitPrefix /\ [][NextPrefix]_vars

\* the stage unit 2 runs and unit 1 does not
ExtraStage == StagesOf(cfg[2])

\* C29: after every call the registers of the stages both units run are the
\* same in both, and the output of the unit with one stage more is one further
\* stage applied to the other's output: the z1 that stage found plus b0 times
\* that output
StagePrefix ==
    /\ \A r \in 0..(2 * ExtraStage - 1) : unit[1].R[r] = unit[2].R[r]
    /\ unit[1].C = unit[2].C /\ unit[1].dC = unit[2].dC
    /\ (hist[2].armed /\ hist[2].n >= 1) =>
          \A l \in Lanes :
              out[2][l] = fadd(hist[2].preR[nls_z1 + 2 * ExtraStage][l],
                               fmul(hist[2].preC[nls_b0][l], out[1][l]))

\* a three-stage and a four-stage unit after two calls: the shared registers
\* non-zero and equal, the fourth stage's registers non-zero, the outputs apart
StagePrefixSeen ==
    /\ ExtraStage = MaxStage
    /\ hist[2].calls >= 2
    /\ \E l \in Lanes :
          /\ \A r \in 0..(2 * ExtraStage - 1) : unit[1].R[r][l] # IntF(0)
          /\ hist[2].preR[nls_z1 + 2 * ExtraStage][l] # IntF(0)
          /\ out[1][l] # out[2][l]
          /\ unit[1].R[nls_z1 + 2 * ExtraStage][l] = IntF(0)
          /\ unit[2].R[nls_z1 + 2 * ExtraStage][l] # IntF(0)

----------------------------------------------------------------------------
(* The scalar ladder filter, juce::dsp::LadderFilter.  Numbers are single  *)
(* rationals here, not lane-groups.  The object is kept in unit; its       *)
(* smoothers, its lookup table and std::pow are outside the file and have  *)
(* stand-ins.                                                              *)

Modes == { "LPF12", "HPF12", "BPF12", "LPF24", "HPF24", "BPF24" }

\* state (2): two channels of five values each
NumChannels == 2

Channels == 1..NumChannels

\* calls of processSample in one run
LadderCalls == 2

Taps(a, b, c, d, e) == <<IntF(a), IntF(b), IntF(c), IntF(d), IntF(e)>>

ZeroState == [ch \in Channels |-> Taps(0, 0, 0, 0, 0)]

\* setMode, lines 60-65: the taps of each mode before scaling
ModeTaps(m) ==
    CASE m = "LPF12" -> Taps(0, 0, 1, 0, 0)
      [] m = "HPF12" -> Taps(1, -2, 1, 0, 0)
      [] m = "BPF12" -> Taps(0, 1, -1, 0, 0)
      [] m = "LPF24" -> Taps(0, 0, 0, 0, 1)
      [] m = "HPF24" -> Taps(1, -4, 6, -4, 1)
      [] m = "BPF24" -> Taps(0, 0, 1, -2, 1)

\* setMode, lines 60-65: comp of each mode
ModeComp(m) == IF m \in {"HPF12", "HPF24"} THEN IntF(0) ELSE Rat(1, 2)

\* setMode, line 69
outputGain == Rat(6, 5)

Scaled(taps) == [i \in 1..5 |-> fmul(taps[i], outputGain)]

\* a smoother set to its target (setCurrentAndTargetValue (getTargetValue()))
Settled(sm) == [sm EXCEPT !.current = sm.target]

\* reset, lines 89-96
reset(L) ==
    [L EXCEPT !.state = ZeroState,
              !.cutoffTransformSmoother = Settled(L.cutoffTransformSmoother),
              !.scaledResonanceSmoother = Settled(L.scaledResonanceSmoother)]

\* setMode, lines 58-75, for a mode other than the one in force; a value that
\* is none of the six takes the default branch: no taps assigned, the old
\* ones scaled again
setMode_install(L, newMode) ==
    reset([L EXCEPT !.A = Scaled(IF newMode \in Modes THEN ModeTaps(newMode) ELSE L.A),
                    !.comp = IF newMode \in Modes THEN ModeComp(newMode) ELSE L.comp,
                    !.mode = newMode])

\* setMode without lines 55-56
setMode_always(L, newMode) == setMode_install(L, newMode)

\* setMode, lines 53-76
setMode(L, newMode) == IF newMode = L.mode THEN L ELSE setMode_install(L, newMode)

\* setDrive's gain formula, std::pow (drive, -2.642) * 0.6103 + 0.3903, in
\* quarters: 0.767 for drive 1.2, 0.988 for drive2 1.008
GainOf(drive) == IF flt(drive, Rat(11, 10)) THEN IntF(1) ELSE Rat(3, 4)

\* the object as the constructor has it on line 47: sample rate, resonance 0
\* and drive 1.2 set, both smoothers at rest, mode LPF24, A and comp not yet
\* assigned by any code of this file
Unset ==
    [mode |-> "LPF24",
     A |-> Taps(0, 0, 0, 0, 0),
     comp |-> IntF(0),
     state |-> ZeroState,
     drive |-> Rat(6, 5),
     gain |-> GainOf(Rat(6, 5)),
     drive2 |-> fadd(fmul(Rat(6, 5), Rat(1, 25)), Rat(24, 25)),
     gain2 |-> GainOf(fadd(fmul(Rat(6, 5), Rat(1, 25)), Rat(24, 25))),
     cutoffTransformValue |-> Rat(1, 2),
     scaledResonanceValue |-> IntF(0),
     cutoffTransformSmoother |-> [current |-> Rat(1, 2), target |-> Rat(1, 2)],
     scaledResonanceSmoother |-> [current |-> IntF(0), target |-> IntF(0)]]

\* LadderFilter::LadderFilter, lines 40-49
LadderFilter == setMode(Unset, "LPF12")

\* saturationLUT, a table of tanh
saturationLUT(x) == tanhlike(x)

\* processSample, lines 147-153: the five values stored and the taps applied
ladder_store(L, ch, a, b, c, d, e) ==
    [L |-> [L EXCEPT !.state[ch] = <<a, b, c, d, e>>],
     result |-> fadd(fadd(fadd(fadd(fmul(a, L.A[1]), fmul(b, L.A[2])),
                               fmul(c, L.A[3])),
                          fmul(d, L.A[4])),
                     fmul(e, L.A[5]))]

\* processSample, lines 142-145, one line at a time
ladder_e(L, ch, a1, b0, b1, a, b, c, d) ==
    ladder_store(L, ch, a, b, c, d,
                 fadd(fadd(fmul(b1, L.state[ch][4]), fmul(a1, L.state[ch][5])),
                      fmul(b0, d)))

ladder_d(L, ch, a1, b0, b1, a, b, c) ==
    ladder_e(L, ch, a1, b0, b1, a, b, c,
             fadd(fadd(fmul(b1, L.state[ch][3]), fmul(a1, L.state[ch][4])),
                  fmul(b0, c)))

ladder_c(L, ch, a1, b0, b1, a, b) ==
    ladder_d(L, ch, a1, b0, b1, a, b,
             fadd(fadd(fmul(b1, L.state[ch][2]), fmul(a1, L.state[ch][3])),
                  fmul(b0, b)))

ladder_b(L, ch, a1, b0, b1, a) ==
    ladder_c(L, ch, a1, b0, b1, a,
             fadd(fadd(fmul(b1, L.state[ch][1]), fmul(a1, L.state[ch][2])),
                  fmul(b0, a)))

\* processSample, line 140: a, from dx and the fed-back fifth value
ladder_a(L, ch, a1, g, dx) ==
    ladder_b(L, ch, a1, fmul(g, Rat(10, 13)), fmul(g, Rat(3, 13)),
             fadd(dx, fmul(fmul(L.scaledResonanceValue, IntF(-4)),
                           fsub(fmul(L.gain2,
                                     saturationLUT(fmul(L.drive2, L.state[ch][5]))),
                                fmul(dx, L.comp)))))

\* processSample, lines 130-154; the literals 0.76923076923 and 0.23076923076
\* of lines 136-137 are 10/13 and 3/13 to eleven places
processSample(L, inputValue, channelToUse) ==
    ladder_a(L, channelToUse, L.cutoffTransformValue,
             fadd(fmul(L.cutoffTransformValue, IntF(-1)), IntF(1)),
             fmul(L.gain, saturationLUT(fmul(L.drive, inputValue))))

\* updateSmoothers, lines 158-162, with smoothers that reach their target in
\* one step
updateSmoothers(L) ==
    [L EXCEPT !.cutoffTransformValue = L.cutoffTransformSmoother.target,
              !.scaledResonanceValue = L.scaledResonanceSmoother.target,
              !.cutoffTransformSmoother = Settled(L.cutoffTransformSmoother),
              !.scaledResonanceSmoother = Settled(L.scaledResonanceSmoother)]

LadderInputs == { IntF(1), Rat(-1, 2) }

\* the values updateCutoffFreq hands to the smoother as its target
CutoffTargets == { IntF(0), Rat(1, 2) }

InitLadder ==
    /\ unit = LadderFilter
    /\ hist = [calls |-> 0]
    /\ out = IntF(0)
    /\ probe = [op |-> "construct", arg |-> "", from |-> "", dirty |-> FALSE,
                ramping |-> FALSE]
    /\ cfg = <<>>
    /\ maker = NoMaker

Ramping(L) == L.cutoffTransformSmoother.current # L.cutoffTransformSmoother.target

\* what the last operation was and what it found
Found(op, arg) ==
    [op |-> op, arg |-> arg, from |-> unit.mode, dirty |-> unit.state # ZeroState,
     ramping |-> Ramping(unit)]

SetMode ==
    /\ \E m \in Modes :
          /\ unit' = setMode(unit, m)
          /\ probe' = Found("setMode", m)
    /\ UNCHANGED <<cfg, out, hist, maker>>

\* setCutoffFrequencyHz, as far as the smoother's target
SetCutoff ==
    /\ \E v \in CutoffTargets :
          /\ v # unit.cutoffTransformSmoother.target
          /\ unit' = [unit EXCEPT !.cutoffTransformSmoother.target = v]
    /\ probe' = Found("setCutoff", "")
    /\ UNCHANGED <<cfg, out, hist, maker>>

UpdateSmoothers ==
    /\ Ramping(unit)
    /\ unit' = updateSmoothers(unit)
    /\ probe' = Found("updateSmoothers", "")
    /\ UNCHANGED <<cfg, out, hist, maker>>

ProcessSample ==
    /\ hist.calls < LadderCalls
    /\ \E x \in LadderInputs, ch \in Channels :
          \E r \in { processSample(unit, x, ch) } :
              /\ unit' = r.L
              /\ out' = r.result
    /\ hist' = [hist EXCEPT !.calls = @ + 1]
    /\ probe' = Found("processSample", "")
    /\ UNCHANGED <<cfg, maker>>

NextLadder == SetMode \/ SetCutoff \/ UpdateSmoothers \/ ProcessSample

SpecLadder == InitLadder /\ [][NextLadder]_vars

\* C30: setMode with the mode in force changes nothing; setMode with another
\* mode installs that mode's taps times 1.2 and its comp, records the mode and
\* zeroes the state of every channel; a constructed filter is in LPF12 with
\* the LPF12 taps
LadderModes ==
    /\ [](probe.op = "construct" =>
             /\ unit.mode = "LPF12"
             /\ unit.A = <<IntF(0), IntF(0), Rat(6, 5), IntF(0), IntF(0)>>
             /\ unit.comp = Rat(1, 2)
             /\ unit.state = ZeroState)
    /\ [](probe.op = "setMode" =>
             /\ unit.mode = probe.arg
             /\ \A i \in 1..5 : unit.A[i] = fmul(Rat(6, 5), ModeTaps(unit.mode)[i])
             /\ unit.comp = ModeComp(unit.mode)
             /\ probe.arg # probe.from => \A ch \in Channels : unit.state[ch] = Taps(0, 0, 0, 0, 0))
    /\ [][(probe'.op = "setMode" /\ probe'.arg = unit.mode) => unit' = unit]_vars

\* setMode with the mode in force on a filter with non-zero state and a
\* smoother mid-ramp: state and smoother kept
LadderModesKept ==
    /\ probe.op = "setMode"
    /\ probe.arg = probe.from
    /\ probe.dirty /\ probe.ramping
    /\ unit.state # ZeroState
    /\ Ramping(unit)

\* setMode with another mode on a filter with non-zero state: state zeroed
LadderModesSeen ==
    /\ probe.op = "setMode"
    /\ probe.arg # probe.from
    /\ probe.dirty
    /\ unit.state = ZeroState

====
